---- MODULE Spec2Model ----
(***************************************************************************)
(* State-machine model of the PTY session manager of vivid-ide            *)
(* (src/src-tauri/src/pty.rs): the PtyManager registry, its two mutexes,   *)
(* the caller threads running spawn_shell / write / resize / close, the   *)
(* per-session reader threads and the event sink they emit into; and of    *)
(* the capture of stdout and stderr (src/src-tauri/src/output_capture.rs): *)
(* start_capture, its activation flag and the two line readers; and of    *)
(* the start-up and shutdown handshakes of src/src-tauri/src/main.rs: the  *)
(* render timer thread and the one-time initialization of vivid.           *)
(***************************************************************************)
EXTENDS Integers, Sequences, FiniteSets, TLC

(***************************************************************************)
(* Bounds of the model.                                                    *)
(***************************************************************************)
NumThreads == 2
MaxSessions == 2
MaxInput == 1
MaxStream == 3
MaxCapture == 3
MaxLifeStream == 1
\* MainEventsCleared events handled by the event loop.
MaxFrames == 32
\* Calls of initialize_vivid recorded.
MaxInitCalls == 3
\* render-tick events counted.
MaxTicks == 2
\* The largest file descriptor number of the process.
MaxFd == 5

(***************************************************************************)
(* Program constants.                                                      *)
(***************************************************************************)
\* next_id: Mutex<u32>.  The largest value of the counter, after which the
\* increment wraps to 0: u32::MAX in the program, here the largest integer
\* TLC represents (2^31 - 1).
U32Max == 2147483647
\* let mut buf = [0u8; 4096];
BufSize == 4096
\* if frame == 30 && !state.init_attempted.load(Ordering::SeqCst)
InitFrame == 30

Threads == 1..NumThreads
\* Identifiers a caller may pass: the ones the bounded run can issue and one
\* that is never issued.
Ids == 1..(MaxSessions + 1)
NoThread == 0
NoId == -1

\* Strings passed to write(), as UTF-8 bytes ("x").
Inputs == {<<120>>}
\* Bytes the child writes in the stream-centred specification: ASCII 'A', the
\* two-byte lead C3, the continuation byte A9, the three-byte lead E2 and the
\* byte FF, which occurs in no UTF-8 encoding.
StreamBytes == {65, 195, 169, 226, 255}

VARIABLES
    next_id,      \* PtyManager.next_id: the value inside Mutex<u32>
    sessions,     \* PtyManager.sessions: the HashMap<u32, PtySession>
    idLock,       \* holder of the next_id mutex, or NoThread
    sesLock,      \* holder of the sessions mutex, or NoThread
    pc,           \* position of each caller thread
    op,           \* the operation each caller thread runs
    session_id,   \* spawn_shell: the local session_id; others: the parameter
    current,      \* spawn_shell: the local `current` read from the counter
    size,         \* the rows/cols parameter of spawn_shell and resize
    data,         \* the data parameter of write
    result,       \* the Result each call returns
    reader,       \* the reader thread of each session: position and buffer
    ptyOut,       \* OS: bytes the child wrote that the reader has not read
    stream,       \* OS: state of the read side of the PTY
    ptyIn,        \* OS: bytes written to the child through the writer
    winsize,      \* OS: the window size of the PTY
    events,       \* the event sink: events in order of emission
    reads,        \* history: the chunks each reader's read() returned
    produced,     \* history: all bytes the child of a session wrote
    returned,     \* history: identifiers returned by completed spawn_shell calls
    closed,       \* history: identifiers removed by a successful close
    session,      \* write/resize: the PtySession the lookup returned
    started,      \* history: reader threads started per identifier
    CAPTURE_ACTIVE, \* output_capture: the static AtomicBool
    cap_pc,       \* position of each thread inside start_capture
    redirect,     \* result of the last redirect_fd of each standard stream
    redirected,   \* history: successful dup2 calls per standard stream
    cap_reader,   \* position of the read_and_emit thread of each stream
    cap_threads,  \* history: read_and_emit threads started per stream
    pipe,         \* OS: bytes written to a redirected stream, not yet read
    written,      \* history: all bytes written to a redirected stream
    vivid,        \* the event sink: vivid-output events in order of emission
    fdtab,        \* OS: the file descriptor table of the process
    read_fds,     \* the read_fd each read_and_emit thread owns, or NoFd
    init_attempted, \* AppState.init_attempted: AtomicBool
    vivid_ctx,    \* AppState.vivid: "None" or "Some"
    frame_count,  \* main: the AtomicU64 frame_count
    init_log,     \* history: the calls of initialize_vivid, in order
    render_running, \* AppState.render_running: AtomicBool
    timer_pc,     \* position of the render timer thread
    ticks,        \* history: render-tick events emitted (counted up to MaxTicks)
    exit_handled  \* history: RunEvent::ExitRequested has been handled

callerVars == <<pc, op, session_id, current, size, data, result, session>>
readerVars == <<reader, events, reads, started>>
osVars == <<ptyOut, stream, ptyIn, winsize, produced>>
\* The state of output_capture.rs.
captureVars == <<CAPTURE_ACTIVE, cap_pc, redirect, redirected, cap_reader,
                 cap_threads, pipe, written, vivid, fdtab, read_fds>>
\* The state of pty.rs.
ptyVars == <<next_id, sessions, idLock, sesLock, pc, op, session_id, current,
             size, data, result, reader, ptyOut, stream, ptyIn, winsize, events,
             reads, produced, returned, closed, session, started>>

\* The state of main.rs.
appVars == <<init_attempted, vivid_ctx, frame_count, init_log, render_running,
             timer_pc, ticks, exit_handled>>

vars == <<ptyVars, captureVars, appVars>>

(***************************************************************************)
(* String::from_utf8_lossy, as the reader applies it to one read chunk.    *)
(* A Rust String is its UTF-8 bytes: valid sequences are copied, every     *)
(* maximal invalid part becomes U+FFFD (EF BF BD).                         *)
(***************************************************************************)
Replacement == <<239, 191, 189>>

SafeGet(s, i) == IF i <= Len(s) THEN s[i] ELSE 0

IsCont(b) == b >= 128 /\ b <= 191

Utf8CharWidth(b) ==
    IF b < 128 THEN 1
    ELSE IF b >= 194 /\ b <= 223 THEN 2
    ELSE IF b >= 224 /\ b <= 239 THEN 3
    ELSE IF b >= 240 /\ b <= 244 THEN 4
    ELSE 0

\* Whether `second` may follow the lead byte `lead` of a 3- or 4-byte sequence.
SecondOk(lead, second) ==
    IF lead = 224 THEN second >= 160 /\ second <= 191
    ELSE IF lead = 237 THEN second >= 128 /\ second <= 159
    ELSE IF lead = 240 THEN second >= 144 /\ second <= 191
    ELSE IF lead = 244 THEN second >= 128 /\ second <= 143
    ELSE IsCont(second)

\* One step of the decoder at index i: whether a valid character starts there
\* and the index after the bytes consumed (the character, or the maximal
\* invalid part).
Utf8Step(s, i) ==
    LET w == Utf8CharWidth(s[i]) IN
    IF w = 1 THEN [ok |-> TRUE, next |-> i + 1]
    ELSE IF w = 2 THEN
        IF IsCont(SafeGet(s, i + 1)) THEN [ok |-> TRUE, next |-> i + 2]
        ELSE [ok |-> FALSE, next |-> i + 1]
    ELSE IF w = 3 THEN
        IF ~SecondOk(s[i], SafeGet(s, i + 1)) THEN [ok |-> FALSE, next |-> i + 1]
        ELSE IF ~IsCont(SafeGet(s, i + 2)) THEN [ok |-> FALSE, next |-> i + 2]
        ELSE [ok |-> TRUE, next |-> i + 3]
    ELSE IF w = 4 THEN
        IF ~SecondOk(s[i], SafeGet(s, i + 1)) THEN [ok |-> FALSE, next |-> i + 1]
        ELSE IF ~IsCont(SafeGet(s, i + 2)) THEN [ok |-> FALSE, next |-> i + 2]
        ELSE IF ~IsCont(SafeGet(s, i + 3)) THEN [ok |-> FALSE, next |-> i + 3]
        ELSE [ok |-> TRUE, next |-> i + 4]
    ELSE [ok |-> FALSE, next |-> i + 1]

RECURSIVE LossyFrom(_, _)
LossyFrom(s, i) ==
    IF i > Len(s) THEN <<>>
    ELSE LET r == Utf8Step(s, i) IN
         (IF r.ok THEN SubSeq(s, i, r.next - 1) ELSE Replacement)
             \o LossyFrom(s, r.next)

from_utf8_lossy(s) == LossyFrom(s, 1)

(***************************************************************************)
(* Helpers.                                                                *)
(***************************************************************************)
Min(a, b) == IF a < b THEN a ELSE b

SetMax(S) == IF S = {} THEN 0 ELSE CHOOSE x \in S : \A y \in S : y <= x

RECURSIVE Flatten(_)
Flatten(ss) == IF ss = <<>> THEN <<>> ELSE Head(ss) \o Flatten(Tail(ss))

IdleReader == [pc |-> "none", sid |-> NoId, buf |-> <<>>]

\* struct PtySession { pair, writer }: the handles name the PTY they refer to.
PtySession(p) == [pair |-> p, writer |-> p]
NoSession == [pair |-> NoId, writer |-> NoId]

\* A PTY was allocated and registered under identifier s at some time.
PtyExists(s) == s \in DOMAIN sessions \/ s \in closed

(***************************************************************************)
(* output_capture.rs: the state of the capture of stdout and stderr.       *)
(***************************************************************************)
\* libc::STDOUT_FILENO, libc::STDERR_FILENO
STDOUT_FILENO == 1
STDERR_FILENO == 2

Fds == {STDOUT_FILENO, STDERR_FILENO}

\* Bytes the process writes to its standard streams: 'a', '\n', '\r' and the
\* byte FF, which occurs in no UTF-8 encoding.
CaptureBytes == {97, 10, 13, 255}

\* What a descriptor number refers to: nothing, the stream the process was
\* started with, or the read or the write end of the pipe made for a
\* standard stream.
Descriptors == 0..MaxFd
NoFd == -1
Free == [kind |-> "free", of |-> NoFd]
Inherited == [kind |-> "inherited", of |-> NoFd]
ReadEnd(target_fd) == [kind |-> "read", of |-> target_fd]
WriteEnd(target_fd) == [kind |-> "write", of |-> target_fd]

\* No read_and_emit thread runs on the stream.
NoCapture == [pc |-> "none", stream_name |-> "none"]

\* static CAPTURE_ACTIVE: AtomicBool = AtomicBool::new(false); both standard
\* streams still go to the terminal.
CaptureInit ==
    /\ CAPTURE_ACTIVE = FALSE
    /\ cap_pc = [t \in Threads |-> "idle"]
    /\ redirect = [fd \in Fds |-> "none"]
    /\ redirected = [fd \in Fds |-> 0]
    /\ cap_reader = [fd \in Fds |-> NoCapture]
    /\ cap_threads = [fd \in Fds |-> 0]
    /\ pipe = [fd \in Fds |-> <<>>]
    /\ written = [fd \in Fds |-> <<>>]
    /\ vivid = <<>>
    /\ fdtab = [d \in Descriptors |-> IF d <= STDERR_FILENO THEN Inherited ELSE Free]
    /\ read_fds = [fd \in Fds |-> NoFd]

\* impl Default for AppState; let frame_count = Arc::new(AtomicU64::new(0));
\* the setup closure has not run yet.
AppInit ==
    /\ init_attempted = FALSE
    /\ vivid_ctx = "None"
    /\ frame_count = 0
    /\ init_log = <<>>
    /\ render_running = FALSE
    /\ timer_pc = "none"
    /\ ticks = 0
    /\ exit_handled = FALSE

(***************************************************************************)
(* PtyManager::new                                                         *)
(***************************************************************************)
Init ==
    /\ next_id = 1
    /\ sessions = [k \in {} |-> NoSession]
    /\ idLock = NoThread
    /\ sesLock = NoThread
    /\ pc = [t \in Threads |-> "idle"]
    /\ op = [t \in Threads |-> "none"]
    /\ session_id = [t \in Threads |-> NoId]
    /\ current = [t \in Threads |-> NoId]
    /\ size = [t \in Threads |-> <<0, 0>>]
    /\ data = [t \in Threads |-> <<>>]
    /\ result = [t \in Threads |-> "none"]
    /\ reader = [s \in Ids |-> IdleReader]
    /\ ptyOut = [s \in Ids |-> <<>>]
    /\ stream = [s \in Ids |-> "open"]
    /\ ptyIn = [s \in Ids |-> <<>>]
    /\ winsize = [s \in Ids |-> <<0, 0>>]
    /\ events = <<>>
    /\ reads = [s \in Ids |-> <<>>]
    /\ produced = [s \in Ids |-> <<>>]
    /\ returned = {}
    /\ closed = {}
    /\ session = [t \in Threads |-> NoSession]
    /\ started = [s \in Ids |-> 0]
    /\ CaptureInit
    /\ AppInit

(***************************************************************************)
(* A PtyManager late in a long run: the counter has reached u32::MAX, the  *)
(* first session (identifier 1, spawned with 24 rows and 80 columns) is    *)
(* still registered and its reader runs; every other session was closed.   *)
(* The histories keep only what is still registered: identifier 1.         *)
(***************************************************************************)
\* The identifiers issued around the end of the counter's range.
WrapIds == Ids \cup {0, U32Max}

InitWrap ==
    /\ next_id = U32Max
    /\ sessions = [k \in {1} |-> PtySession(1)]
    /\ idLock = NoThread
    /\ sesLock = NoThread
    /\ pc = [t \in Threads |-> "idle"]
    /\ op = [t \in Threads |-> "none"]
    /\ session_id = [t \in Threads |-> NoId]
    /\ current = [t \in Threads |-> NoId]
    /\ size = [t \in Threads |-> <<0, 0>>]
    /\ data = [t \in Threads |-> <<>>]
    /\ result = [t \in Threads |-> "none"]
    /\ reader = [s \in WrapIds |->
                    IF s = 1 THEN [pc |-> "read", sid |-> 1, buf |-> <<>>]
                    ELSE IdleReader]
    /\ ptyOut = [s \in WrapIds |-> <<>>]
    /\ stream = [s \in WrapIds |-> "open"]
    /\ ptyIn = [s \in WrapIds |-> <<>>]
    /\ winsize = [s \in WrapIds |-> IF s = 1 THEN <<24, 80>> ELSE <<0, 0>>]
    /\ events = <<>>
    /\ reads = [s \in WrapIds |-> <<>>]
    /\ produced = [s \in WrapIds |-> <<>>]
    /\ returned = {1}
    /\ closed = {}
    /\ session = [t \in Threads |-> NoSession]
    /\ started = [s \in WrapIds |-> IF s = 1 THEN 1 ELSE 0]
    /\ CaptureInit
    /\ AppInit

(***************************************************************************)
(* Leaving a call: `?` on an Err, or the final Ok.  The locals of the      *)
(* frame are dropped; the operation, its identifier and its Result stay    *)
(* visible until the caller takes them (Return).                           *)
(***************************************************************************)
Finish(t, r) ==
    /\ pc' = [pc EXCEPT ![t] = "ret"]
    /\ result' = [result EXCEPT ![t] = r]
    /\ current' = [current EXCEPT ![t] = NoId]
    /\ size' = [size EXCEPT ![t] = <<0, 0>>]
    /\ data' = [data EXCEPT ![t] = <<>>]
    /\ session' = [session EXCEPT ![t] = NoSession]

Return(t) ==
    /\ pc[t] = "ret"
    /\ returned' = IF op[t] = "spawn_shell" /\ result[t] = "Ok"
                   THEN returned \cup {session_id[t]} ELSE returned
    /\ pc' = [pc EXCEPT ![t] = "idle"]
    /\ op' = [op EXCEPT ![t] = "none"]
    /\ session_id' = [session_id EXCEPT ![t] = NoId]
    /\ result' = [result EXCEPT ![t] = "none"]
    /\ UNCHANGED <<current, size, data, session>>
    /\ UNCHANGED <<next_id, sessions, idLock, sesLock, closed>>
    /\ UNCHANGED readerVars
    /\ UNCHANGED osVars
    /\ UNCHANGED captureVars
    /\ UNCHANGED appVars

(***************************************************************************)
(* PtyManager::spawn_shell                                                 *)
(***************************************************************************)
\* Spawns that passed the fallible steps and have not yet incremented the
\* counter.
PendingSpawns == {t \in Threads : pc[t] \in {"id_lock", "id_incr"}}

\* The bound of the run: identifiers are issued up to MaxSessions; a run that
\* starts at the end of the counter's range also issues the last identifiers
\* of the range.
SpawnAllowed ==
    IF next_id >= U32Max - 1 THEN TRUE
    ELSE next_id + Cardinality(PendingSpawns) <= MaxSessions

\* The outcomes of the fallible steps, in the order the code takes them:
\* openpty, spawn_command, take_writer, try_clone_reader.
PrologueErrors == {"OpenPtyError", "SpawnError", "WriterError", "ReaderError"}

\* Variant of spawn_shell_prologue: the identifier is taken and the session is
\* stored before the reader is cloned, so a failing try_clone_reader leaves
\* the entry behind.
spawn_shell_prologue_stored(t, sz, outcome) ==
    /\ pc[t] = "idle"
    /\ SpawnAllowed
    /\ op' = [op EXCEPT ![t] = "spawn_shell"]
    /\ IF outcome = "Ok"
       THEN /\ pc' = [pc EXCEPT ![t] = "id_lock"]
            /\ size' = [size EXCEPT ![t] = sz]
            /\ UNCHANGED <<result, current, data, session>>
       ELSE Finish(t, outcome)
    /\ IF outcome = "ReaderError" /\ sesLock = NoThread /\ idLock = NoThread
       THEN /\ sessions' = [x \in DOMAIN sessions \cup {next_id} |->
                               IF x = next_id THEN PtySession(next_id)
                               ELSE sessions[x]]
            /\ next_id' = next_id + 1
       ELSE UNCHANGED <<sessions, next_id>>
    /\ UNCHANGED session_id
    /\ UNCHANGED <<idLock, sesLock, returned, closed>>
    /\ UNCHANGED readerVars
    /\ UNCHANGED osVars
    /\ UNCHANGED captureVars
    /\ UNCHANGED appVars

\* The call and its fallible steps, which touch only locals of the frame:
\* openpty(..)?, spawn_command(..)?, take_writer()?, try_clone_reader()?.
\* The first Err returns; nothing is shared before the counter is locked.
spawn_shell_prologue(t, sz, outcome) ==
    /\ pc[t] = "idle"
    /\ SpawnAllowed
    /\ op' = [op EXCEPT ![t] = "spawn_shell"]
    /\ IF outcome = "Ok"
       THEN /\ pc' = [pc EXCEPT ![t] = "id_lock"]
            /\ size' = [size EXCEPT ![t] = sz]
            /\ UNCHANGED <<result, current, data, session>>
       ELSE Finish(t, outcome)
    /\ UNCHANGED session_id
    /\ UNCHANGED <<next_id, sessions, idLock, sesLock, returned, closed>>
    /\ UNCHANGED readerVars
    /\ UNCHANGED osVars
    /\ UNCHANGED captureVars
    /\ UNCHANGED appVars

\* let mut id = self.next_id.lock(); let current = *id;
next_id_lock(t) ==
    /\ pc[t] = "id_lock"
    /\ idLock = NoThread
    /\ idLock' = t
    /\ current' = [current EXCEPT ![t] = next_id]
    /\ pc' = [pc EXCEPT ![t] = "id_incr"]
    /\ UNCHANGED <<op, session_id, size, data, result, session>>
    /\ UNCHANGED <<next_id, sessions, sesLock, returned, closed>>
    /\ UNCHANGED readerVars
    /\ UNCHANGED osVars
    /\ UNCHANGED captureVars
    /\ UNCHANGED appVars

\* *id += 1 on a u32 (wrapping, as a release build computes it).
Increment(n) == IF n = U32Max THEN 0 ELSE n + 1

\* Variant of next_id_incr: the guard of the counter is kept for the rest
\* of the call, so the insert runs under both locks.
next_id_incr_holding(t) ==
    /\ pc[t] = "id_incr"
    /\ next_id' = Increment(next_id)
    /\ session_id' = [session_id EXCEPT ![t] = current[t]]
    /\ pc' = [pc EXCEPT ![t] = "insert"]
    /\ UNCHANGED <<op, current, size, data, result, session>>
    /\ UNCHANGED <<sessions, idLock, sesLock, returned, closed>>
    /\ UNCHANGED readerVars
    /\ UNCHANGED osVars
    /\ UNCHANGED captureVars
    /\ UNCHANGED appVars

\* Variant of next_id_incr: the call returns the incremented value.
next_id_incr_post(t) ==
    /\ pc[t] = "id_incr"
    /\ next_id' = Increment(next_id)
    /\ session_id' = [session_id EXCEPT ![t] = Increment(next_id)]
    /\ idLock' = IF idLock = t THEN NoThread ELSE idLock
    /\ pc' = [pc EXCEPT ![t] = "insert"]
    /\ UNCHANGED <<op, current, size, data, result, session>>
    /\ UNCHANGED <<sessions, sesLock, returned, closed>>
    /\ UNCHANGED readerVars
    /\ UNCHANGED osVars
    /\ UNCHANGED captureVars
    /\ UNCHANGED appVars

\* *id += 1; current  -- the guard is dropped at the end of the block.
\* At u32::MAX the addition overflows: a build without overflow checks wraps
\* to 0; a build with overflow checks panics, the unwinding drops the guard
\* (a parking_lot mutex is not poisoned), the counter keeps its value and the
\* call ends without an identifier.
next_id_incr(t) ==
    /\ pc[t] = "id_incr"
    /\ idLock' = IF idLock = t THEN NoThread ELSE idLock
    /\ \/ /\ next_id' = Increment(next_id)
          /\ session_id' = [session_id EXCEPT ![t] = current[t]]
          /\ pc' = [pc EXCEPT ![t] = "insert"]
          /\ UNCHANGED <<current, size, data, result, session>>
       \/ /\ next_id = U32Max
          /\ Finish(t, "Panic")
          /\ UNCHANGED <<next_id, session_id>>
    /\ UNCHANGED op
    /\ UNCHANGED <<sessions, sesLock, returned, closed>>
    /\ UNCHANGED readerVars
    /\ UNCHANGED osVars
    /\ UNCHANGED captureVars
    /\ UNCHANGED appVars

\* HashMap::insert: the entry of key k is set (an old entry of k is replaced).
MapInsert(m, k, v) == [x \in DOMAIN m \cup {k} |-> IF x = k THEN v ELSE m[x]]

\* Variant of HashMap::remove: the entries up to the key go with it.
MapRemoveUpTo(m, k) == [x \in {y \in DOMAIN m : y > k} |-> m[x]]

\* HashMap::remove
MapRemove(m, k) == [x \in DOMAIN m \ {k} |-> m[x]]

\* Variant of insert: the reader is started and the identifier returned
\* without the entry being stored.
insert_skipped(t) ==
    /\ pc[t] = "insert"
    /\ sesLock = NoThread
    /\ pc' = [pc EXCEPT ![t] = "thread_spawn"]
    /\ UNCHANGED <<op, session_id, current, size, data, result, session>>
    /\ UNCHANGED <<next_id, sessions, idLock, sesLock, returned, closed>>
    /\ UNCHANGED readerVars
    /\ UNCHANGED osVars
    /\ UNCHANGED captureVars
    /\ UNCHANGED appVars

\* { let mut sessions = self.sessions.lock(); sessions.insert(session_id, ..) }
\* The PTY allocated by openpty(rows, cols) is from here on known by its key.
insert(t) ==
    /\ pc[t] = "insert"
    /\ sesLock = NoThread
    /\ sessions' = MapInsert(sessions, session_id[t], PtySession(session_id[t]))
    /\ winsize' = [winsize EXCEPT ![session_id[t]] = size[t]]
    /\ pc' = [pc EXCEPT ![t] = "thread_spawn"]
    /\ UNCHANGED <<op, session_id, current, size, data, result, session>>
    /\ UNCHANGED <<next_id, idLock, sesLock, returned, closed>>
    /\ UNCHANGED readerVars
    /\ UNCHANGED <<ptyOut, stream, ptyIn, produced>>
    /\ UNCHANGED captureVars
    /\ UNCHANGED appVars

\* thread::spawn(move || { let mut buf = [0u8; 4096]; loop { .. } }); Ok(session_id)
thread_spawn(t) ==
    /\ pc[t] = "thread_spawn"
    /\ reader' = [reader EXCEPT ![session_id[t]] =
                      [pc |-> "read", sid |-> session_id[t], buf |-> <<>>]]
    /\ started' = [started EXCEPT ![session_id[t]] = @ + 1]
    /\ Finish(t, "Ok")
    /\ UNCHANGED <<op, session_id>>
    /\ UNCHANGED <<next_id, sessions, idLock, sesLock, returned, closed>>
    /\ UNCHANGED <<events, reads>>
    /\ UNCHANGED osVars
    /\ UNCHANGED captureVars
    /\ UNCHANGED appVars

(***************************************************************************)
(* PtyManager::write                                                       *)
(***************************************************************************)
write_call(t, id, d) ==
    /\ pc[t] = "idle"
    /\ Len(ptyIn[id]) < MaxInput
    /\ pc' = [pc EXCEPT ![t] = "write_lookup"]
    /\ op' = [op EXCEPT ![t] = "write"]
    /\ session_id' = [session_id EXCEPT ![t] = id]
    /\ data' = [data EXCEPT ![t] = d]
    /\ UNCHANGED <<current, size, result, session>>
    /\ UNCHANGED <<next_id, sessions, idLock, sesLock, returned, closed>>
    /\ UNCHANGED readerVars
    /\ UNCHANGED osVars
    /\ UNCHANGED captureVars
    /\ UNCHANGED appVars

\* The mutex is released when the guard of thread t is dropped.
Unlock(t) == IF sesLock = t THEN NoThread ELSE sesLock

\* Variant of write_lookup: a missing session is skipped silently (Ok).
write_lookup_silent(t) ==
    /\ pc[t] = "write_lookup"
    /\ sesLock = NoThread
    /\ IF session_id[t] \in DOMAIN sessions
       THEN /\ session' = [session EXCEPT ![t] = sessions[session_id[t]]]
            /\ sesLock' = t
            /\ pc' = [pc EXCEPT ![t] = "write_all"]
            /\ UNCHANGED <<result, current, size, data>>
       ELSE /\ Finish(t, "Ok")
            /\ UNCHANGED sesLock
    /\ UNCHANGED <<op, session_id>>
    /\ UNCHANGED <<next_id, sessions, idLock, returned, closed>>
    /\ UNCHANGED readerVars
    /\ UNCHANGED osVars
    /\ UNCHANGED captureVars
    /\ UNCHANGED appVars

\* Variant of write_lookup: the guard is dropped right after the lookup.
write_lookup_released(t) ==
    /\ pc[t] = "write_lookup"
    /\ sesLock = NoThread
    /\ IF session_id[t] \in DOMAIN sessions
       THEN /\ session' = [session EXCEPT ![t] = sessions[session_id[t]]]
            /\ pc' = [pc EXCEPT ![t] = "write_all"]
            /\ UNCHANGED <<result, current, size, data>>
       ELSE Finish(t, "NotFound")
    /\ UNCHANGED <<op, session_id, sesLock>>
    /\ UNCHANGED <<next_id, sessions, idLock, returned, closed>>
    /\ UNCHANGED readerVars
    /\ UNCHANGED osVars
    /\ UNCHANGED captureVars
    /\ UNCHANGED appVars

\* let mut sessions = self.sessions.lock(); sessions.get_mut(&session_id).ok_or_else(..)?
write_lookup(t) ==
    /\ pc[t] = "write_lookup"
    /\ sesLock = NoThread
    /\ IF session_id[t] \in DOMAIN sessions
       THEN /\ session' = [session EXCEPT ![t] = sessions[session_id[t]]]
            /\ sesLock' = t
            /\ pc' = [pc EXCEPT ![t] = "write_all"]
            /\ UNCHANGED <<result, current, size, data>>
       ELSE /\ Finish(t, "NotFound")
            /\ UNCHANGED sesLock
    /\ UNCHANGED <<op, session_id>>
    /\ UNCHANGED <<next_id, sessions, idLock, returned, closed>>
    /\ UNCHANGED readerVars
    /\ UNCHANGED osVars
    /\ UNCHANGED captureVars
    /\ UNCHANGED appVars

\* Variant of write_all: a session whose write fails is dropped from the map.
write_all_evicting(t) ==
    /\ pc[t] = "write_all"
    /\ \/ /\ ptyIn' = [ptyIn EXCEPT ![session[t].writer] = @ \o data[t]]
          /\ pc' = [pc EXCEPT ![t] = "flush"]
          /\ UNCHANGED <<result, current, size, data, session, sesLock, sessions>>
       \/ /\ Finish(t, "WriteError")
          /\ sesLock' = Unlock(t)
          /\ sessions' = MapRemove(sessions, session_id[t])
          /\ UNCHANGED ptyIn
    /\ UNCHANGED <<op, session_id>>
    /\ UNCHANGED <<next_id, idLock, returned, closed>>
    /\ UNCHANGED readerVars
    /\ UNCHANGED <<ptyOut, stream, winsize, produced>>
    /\ UNCHANGED captureVars
    /\ UNCHANGED appVars

\* session.writer.write_all(data.as_bytes()).map_err(..)?
write_all(t) ==
    /\ pc[t] = "write_all"
    /\ \/ /\ ptyIn' = [ptyIn EXCEPT ![session[t].writer] = @ \o data[t]]
          /\ pc' = [pc EXCEPT ![t] = "flush"]
          /\ UNCHANGED <<result, current, size, data, session, sesLock>>
       \/ /\ Finish(t, "WriteError")
          /\ sesLock' = Unlock(t)
          /\ UNCHANGED ptyIn
    /\ UNCHANGED <<op, session_id>>
    /\ UNCHANGED <<next_id, sessions, idLock, returned, closed>>
    /\ UNCHANGED readerVars
    /\ UNCHANGED <<ptyOut, stream, winsize, produced>>
    /\ UNCHANGED captureVars
    /\ UNCHANGED appVars

\* session.writer.flush().map_err(..)?; Ok(())
flush(t) ==
    /\ pc[t] = "flush"
    /\ \/ Finish(t, "Ok")
       \/ Finish(t, "FlushError")
    /\ sesLock' = Unlock(t)
    /\ UNCHANGED <<op, session_id>>
    /\ UNCHANGED <<next_id, sessions, idLock, returned, closed>>
    /\ UNCHANGED readerVars
    /\ UNCHANGED osVars
    /\ UNCHANGED captureVars
    /\ UNCHANGED appVars

(***************************************************************************)
(* A panic inside a call made under the sessions guard (write_all, flush,  *)
(* resize).  sessions is a parking_lot::Mutex: lock() returns the guard    *)
(* itself, there is no poison flag, and the unwinding drops the guard, so  *)
(* the mutex is simply released.  The thread does not return.              *)
(***************************************************************************)
panic_under_lock(t) ==
    /\ pc[t] \in {"write_all", "flush", "os_resize"}
    /\ sesLock = t
    /\ pc' = [pc EXCEPT ![t] = "panicked"]
    /\ sesLock' = NoThread
    /\ UNCHANGED <<op, session_id, current, size, data, result, session>>
    /\ UNCHANGED <<next_id, sessions, idLock, returned, closed>>
    /\ UNCHANGED readerVars
    /\ UNCHANGED osVars
    /\ UNCHANGED captureVars
    /\ UNCHANGED appVars

(***************************************************************************)
(* PtyManager::resize                                                      *)
(***************************************************************************)
resize_call(t, id, sz) ==
    /\ pc[t] = "idle"
    /\ pc' = [pc EXCEPT ![t] = "resize_lookup"]
    /\ op' = [op EXCEPT ![t] = "resize"]
    /\ session_id' = [session_id EXCEPT ![t] = id]
    /\ size' = [size EXCEPT ![t] = sz]
    /\ UNCHANGED <<current, data, result, session>>
    /\ UNCHANGED <<next_id, sessions, idLock, sesLock, returned, closed>>
    /\ UNCHANGED readerVars
    /\ UNCHANGED osVars
    /\ UNCHANGED captureVars
    /\ UNCHANGED appVars

\* Variant of resize_lookup: the guard is dropped right after the lookup.
resize_lookup_released(t) ==
    /\ pc[t] = "resize_lookup"
    /\ sesLock = NoThread
    /\ IF session_id[t] \in DOMAIN sessions
       THEN /\ session' = [session EXCEPT ![t] = sessions[session_id[t]]]
            /\ pc' = [pc EXCEPT ![t] = "os_resize"]
            /\ UNCHANGED <<result, current, size, data>>
       ELSE Finish(t, "NotFound")
    /\ UNCHANGED <<op, session_id, sesLock>>
    /\ UNCHANGED <<next_id, sessions, idLock, returned, closed>>
    /\ UNCHANGED readerVars
    /\ UNCHANGED osVars
    /\ UNCHANGED captureVars
    /\ UNCHANGED appVars

\* let sessions = self.sessions.lock(); sessions.get(&session_id).ok_or_else(..)?
resize_lookup(t) ==
    /\ pc[t] = "resize_lookup"
    /\ sesLock = NoThread
    /\ IF session_id[t] \in DOMAIN sessions
       THEN /\ session' = [session EXCEPT ![t] = sessions[session_id[t]]]
            /\ sesLock' = t
            /\ pc' = [pc EXCEPT ![t] = "os_resize"]
            /\ UNCHANGED <<result, current, size, data>>
       ELSE /\ Finish(t, "NotFound")
            /\ UNCHANGED sesLock
    /\ UNCHANGED <<op, session_id>>
    /\ UNCHANGED <<next_id, sessions, idLock, returned, closed>>
    /\ UNCHANGED readerVars
    /\ UNCHANGED osVars
    /\ UNCHANGED captureVars
    /\ UNCHANGED appVars

\* session.pair.master.resize(PtySize { rows, cols, .. }).map_err(..)?; Ok(())
os_resize(t) ==
    /\ pc[t] = "os_resize"
    /\ \/ /\ winsize' = [winsize EXCEPT ![session[t].pair] = size[t]]
          /\ Finish(t, "Ok")
       \/ /\ Finish(t, "ResizeError")
          /\ UNCHANGED winsize
    /\ sesLock' = Unlock(t)
    /\ UNCHANGED <<op, session_id>>
    /\ UNCHANGED <<next_id, sessions, idLock, returned, closed>>
    /\ UNCHANGED readerVars
    /\ UNCHANGED <<ptyOut, stream, ptyIn, produced>>
    /\ UNCHANGED captureVars
    /\ UNCHANGED appVars

(***************************************************************************)
(* PtyManager::close                                                       *)
(***************************************************************************)
close_call(t, id) ==
    /\ pc[t] = "idle"
    /\ pc' = [pc EXCEPT ![t] = "close_remove"]
    /\ op' = [op EXCEPT ![t] = "close"]
    /\ session_id' = [session_id EXCEPT ![t] = id]
    /\ UNCHANGED <<current, size, data, result, session>>
    /\ UNCHANGED <<next_id, sessions, idLock, sesLock, returned, closed>>
    /\ UNCHANGED readerVars
    /\ UNCHANGED osVars
    /\ UNCHANGED captureVars
    /\ UNCHANGED appVars

\* Variant of close_remove: a successful close reports the end of the
\* session to the sink itself.
close_remove_emitting(t) ==
    /\ pc[t] = "close_remove"
    /\ sesLock = NoThread
    /\ IF session_id[t] \in DOMAIN sessions
       THEN /\ sessions' = MapRemove(sessions, session_id[t])
            /\ closed' = closed \cup {session_id[t]}
            /\ events' = Append(events, [name |-> "pty-exit", sid |-> session_id[t],
                                         text |-> <<>>])
            /\ Finish(t, "Ok")
       ELSE /\ Finish(t, "NotFound")
            /\ UNCHANGED <<sessions, closed, events>>
    /\ UNCHANGED <<op, session_id>>
    /\ UNCHANGED <<next_id, idLock, sesLock, returned>>
    /\ UNCHANGED <<reader, reads, started>>
    /\ UNCHANGED osVars
    /\ UNCHANGED captureVars
    /\ UNCHANGED appVars

\* let mut sessions = self.sessions.lock();
\* sessions.remove(&session_id).ok_or_else(..)?; Ok(())
close_remove(t) ==
    /\ pc[t] = "close_remove"
    /\ sesLock = NoThread
    /\ IF session_id[t] \in DOMAIN sessions
       THEN /\ sessions' = MapRemove(sessions, session_id[t])
            /\ closed' = closed \cup {session_id[t]}
            /\ Finish(t, "Ok")
       ELSE /\ Finish(t, "NotFound")
            /\ UNCHANGED <<sessions, closed>>
    /\ UNCHANGED <<op, session_id>>
    /\ UNCHANGED <<next_id, idLock, sesLock, returned>>
    /\ UNCHANGED readerVars
    /\ UNCHANGED osVars
    /\ UNCHANGED captureVars
    /\ UNCHANGED appVars

(***************************************************************************)
(* The reader thread of a session (the closure given to thread::spawn).    *)
(* One action is one iteration of its loop.                                *)
(***************************************************************************)
OutputEvent(sid, text) == [name |-> "pty-output", sid |-> sid, text |-> text]

ExitEvent(sid) == [name |-> "pty-exit", sid |-> sid, text |-> <<>>]

\* Variant of reader_output: a chunk is emitted only when it drained the
\* pending bytes; a chunk that leaves bytes behind is dropped.
reader_output_dropping(s, n) ==
    /\ reader[s].pc = "read"
    /\ n \in 1..Min(Len(ptyOut[s]), BufSize)
    /\ reader' = [reader EXCEPT ![s].buf = SubSeq(ptyOut[s], 1, n)]
    /\ reads' = [reads EXCEPT ![s] = Append(@, SubSeq(ptyOut[s], 1, n))]
    /\ ptyOut' = [ptyOut EXCEPT ![s] = SubSeq(@, n + 1, Len(@))]
    /\ events' = IF n = Len(ptyOut[s])
                 THEN Append(events,
                             OutputEvent(reader[s].sid,
                                         from_utf8_lossy(SubSeq(ptyOut[s], 1, n))))
                 ELSE events
    /\ UNCHANGED started
    /\ UNCHANGED <<stream, ptyIn, winsize, produced>>
    /\ UNCHANGED callerVars
    /\ UNCHANGED <<next_id, sessions, idLock, sesLock, returned, closed>>
    /\ UNCHANGED captureVars
    /\ UNCHANGED appVars

\* Variant of reader_output: the reader looks its session up in the registry
\* (under the sessions lock) before it emits.
reader_output_locking(s, n) ==
    /\ reader[s].pc = "read"
    /\ sesLock = NoThread
    /\ n \in 1..Min(Len(ptyOut[s]), BufSize)
    /\ reader' = [reader EXCEPT ![s].buf = SubSeq(ptyOut[s], 1, n)]
    /\ reads' = [reads EXCEPT ![s] = Append(@, SubSeq(ptyOut[s], 1, n))]
    /\ ptyOut' = [ptyOut EXCEPT ![s] = SubSeq(@, n + 1, Len(@))]
    /\ events' = Append(events,
                        OutputEvent(reader[s].sid,
                                    from_utf8_lossy(SubSeq(ptyOut[s], 1, n))))
    /\ UNCHANGED started
    /\ UNCHANGED <<stream, ptyIn, winsize, produced>>
    /\ UNCHANGED callerVars
    /\ UNCHANGED <<next_id, sessions, idLock, sesLock, returned, closed>>
    /\ UNCHANGED captureVars
    /\ UNCHANGED appVars

\* Ok(n), n > 0: read() took a non-empty prefix of the pending bytes that fits
\* the buffer.
\*   let data = String::from_utf8_lossy(&buf[..n]).to_string();
\*   let _ = app.emit("pty-output", (sid, data));
reader_output(s, n) ==
    /\ reader[s].pc = "read"
    /\ n \in 1..Min(Len(ptyOut[s]), BufSize)
    /\ reader' = [reader EXCEPT ![s].buf = SubSeq(ptyOut[s], 1, n)]
    /\ reads' = [reads EXCEPT ![s] = Append(@, SubSeq(ptyOut[s], 1, n))]
    /\ ptyOut' = [ptyOut EXCEPT ![s] = SubSeq(@, n + 1, Len(@))]
    /\ events' = Append(events,
                        OutputEvent(reader[s].sid,
                                    from_utf8_lossy(SubSeq(ptyOut[s], 1, n))))
    /\ UNCHANGED started
    /\ UNCHANGED <<stream, ptyIn, winsize, produced>>
    /\ UNCHANGED callerVars
    /\ UNCHANGED <<next_id, sessions, idLock, sesLock, returned, closed>>
    /\ UNCHANGED captureVars
    /\ UNCHANGED appVars

\* Variant of reader_eof: the reader removes the entry of its session.
reader_eof_removing(s) ==
    /\ reader[s].pc = "read"
    /\ ptyOut[s] = <<>>
    /\ stream[s] = "eof"
    /\ events' = Append(events, ExitEvent(reader[s].sid))
    /\ reader' = [reader EXCEPT ![s].pc = "done"]
    /\ sessions' = MapRemove(sessions, reader[s].sid)
    /\ UNCHANGED <<reads, started>>
    /\ UNCHANGED osVars
    /\ UNCHANGED callerVars
    /\ UNCHANGED <<next_id, idLock, sesLock, returned, closed>>
    /\ UNCHANGED captureVars
    /\ UNCHANGED appVars

\* Variant of reader_eof: the exit event is emitted but the loop goes on.
reader_eof_looping(s) ==
    /\ reader[s].pc = "read"
    /\ ptyOut[s] = <<>>
    /\ stream[s] = "eof"
    /\ Len(events) < MaxStream + 2
    /\ events' = Append(events, ExitEvent(reader[s].sid))
    /\ UNCHANGED <<reader, reads, started>>
    /\ UNCHANGED osVars
    /\ UNCHANGED callerVars
    /\ UNCHANGED <<next_id, sessions, idLock, sesLock, returned, closed>>
    /\ UNCHANGED captureVars
    /\ UNCHANGED appVars

\* Variant of reader_eof: the loop ends without the exit event.
reader_eof_silent(s) ==
    /\ reader[s].pc = "read"
    /\ ptyOut[s] = <<>>
    /\ stream[s] = "eof"
    /\ reader' = [reader EXCEPT ![s].pc = "done"]
    /\ UNCHANGED <<events, reads, started>>
    /\ UNCHANGED osVars
    /\ UNCHANGED callerVars
    /\ UNCHANGED <<next_id, sessions, idLock, sesLock, returned, closed>>
    /\ UNCHANGED captureVars
    /\ UNCHANGED appVars

\* Ok(0): let _ = app.emit("pty-exit", sid); break;
reader_eof(s) ==
    /\ reader[s].pc = "read"
    /\ ptyOut[s] = <<>>
    /\ stream[s] = "eof"
    /\ events' = Append(events, ExitEvent(reader[s].sid))
    /\ reader' = [reader EXCEPT ![s].pc = "done"]
    /\ UNCHANGED <<reads, started>>
    /\ UNCHANGED osVars
    /\ UNCHANGED callerVars
    /\ UNCHANGED <<next_id, sessions, idLock, sesLock, returned, closed>>
    /\ UNCHANGED captureVars
    /\ UNCHANGED appVars

\* Variant of reader_error: the error is reported like the end of the stream.
reader_error_exit(s) ==
    /\ reader[s].pc = "read"
    /\ ptyOut[s] = <<>>
    /\ stream[s] = "err"
    /\ events' = Append(events, ExitEvent(reader[s].sid))
    /\ reader' = [reader EXCEPT ![s].pc = "done"]
    /\ UNCHANGED <<reads, started>>
    /\ UNCHANGED osVars
    /\ UNCHANGED callerVars
    /\ UNCHANGED <<next_id, sessions, idLock, sesLock, returned, closed>>
    /\ UNCHANGED captureVars
    /\ UNCHANGED appVars

\* Err(e): log::error!(..); break;
reader_error(s) ==
    /\ reader[s].pc = "read"
    /\ ptyOut[s] = <<>>
    /\ stream[s] = "err"
    /\ reader' = [reader EXCEPT ![s].pc = "done"]
    /\ UNCHANGED <<events, reads, started>>
    /\ UNCHANGED osVars
    /\ UNCHANGED callerVars
    /\ UNCHANGED <<next_id, sessions, idLock, sesLock, returned, closed>>
    /\ UNCHANGED captureVars
    /\ UNCHANGED appVars

(***************************************************************************)
(* The environment: the child shell attached to the PTY of a session.      *)
(***************************************************************************)
\* All bytes the children have written so far.
TotalProduced == Len(Flatten([i \in 1..Cardinality(Ids) |-> produced[i]]))

\* The child writes one byte to its terminal.
child_write(s, b, max) ==
    /\ PtyExists(s)
    /\ stream[s] = "open"
    /\ TotalProduced < max
    /\ ptyOut' = [ptyOut EXCEPT ![s] = Append(@, b)]
    /\ produced' = [produced EXCEPT ![s] = Append(@, b)]
    /\ UNCHANGED <<stream, ptyIn, winsize>>
    /\ UNCHANGED readerVars
    /\ UNCHANGED callerVars
    /\ UNCHANGED <<next_id, sessions, idLock, sesLock, returned, closed>>
    /\ UNCHANGED captureVars
    /\ UNCHANGED appVars

\* The child exits: the read side of the PTY reaches its end, which the OS
\* reports to read() as a zero-byte read ("eof") or as an error ("err").
child_exit(s, how) ==
    /\ PtyExists(s)
    /\ stream[s] = "open"
    /\ stream' = [stream EXCEPT ![s] = how]
    /\ UNCHANGED <<ptyOut, ptyIn, winsize, produced>>
    /\ UNCHANGED readerVars
    /\ UNCHANGED callerVars
    /\ UNCHANGED <<next_id, sessions, idLock, sesLock, returned, closed>>
    /\ UNCHANGED captureVars
    /\ UNCHANGED appVars

(***************************************************************************)
(* output_capture.rs: start_capture, redirect_fd and read_and_emit.        *)
(***************************************************************************)
\* The outcomes of redirect_fd: Some(read_fd), or None after a failing
\* libc::pipe or a failing libc::dup2.
RedirectErrors == {"PipeError", "Dup2Error"}

\* Variant of start_capture_swap: the flag is loaded but not set.
start_capture_load(t) ==
    /\ cap_pc[t] = "idle"
    /\ CAPTURE_ACTIVE' = CAPTURE_ACTIVE
    /\ cap_pc' = [cap_pc EXCEPT ![t] = IF CAPTURE_ACTIVE THEN "ret" ELSE "stdout"]
    /\ UNCHANGED <<redirect, redirected, cap_reader, cap_threads, pipe, written, vivid>>
    /\ UNCHANGED <<fdtab, read_fds>>
    /\ UNCHANGED ptyVars
    /\ UNCHANGED appVars

\* if CAPTURE_ACTIVE.swap(true, Ordering::SeqCst) { return; }
start_capture_swap(t) ==
    /\ cap_pc[t] = "idle"
    /\ CAPTURE_ACTIVE' = TRUE
    /\ cap_pc' = [cap_pc EXCEPT ![t] = IF CAPTURE_ACTIVE THEN "ret" ELSE "stdout"]
    /\ UNCHANGED <<redirect, redirected, cap_reader, cap_threads, pipe, written, vivid>>
    /\ UNCHANGED <<fdtab, read_fds>>
    /\ UNCHANGED ptyVars
    /\ UNCHANGED appVars

\* The lowest free descriptor number of a table.
LowestFree(tab) ==
    LET free == {d \in Descriptors : tab[d] = Free}
    IN CHOOSE d \in free : \A e \in free : d <= e

\* libc::pipe: the two ends get the two lowest free numbers.
PipeOpen(tab, target_fd) ==
    LET read_fd == LowestFree(tab)
        t1 == [tab EXCEPT ![read_fd] = ReadEnd(target_fd)]
        write_fd == LowestFree(t1)
    IN [tab |-> [t1 EXCEPT ![write_fd] = WriteEnd(target_fd)],
        read_fd |-> read_fd, write_fd |-> write_fd]

\* libc::dup2(oldfd, newfd): newfd refers to what oldfd refers to; nothing
\* happens when the two numbers are equal.
Dup2(tab, oldfd, newfd) ==
    IF oldfd = newfd THEN tab ELSE [tab EXCEPT ![newfd] = tab[oldfd]]

\* libc::close
Close(tab, fd) == [tab EXCEPT ![fd] = Free]

\* Variant of redirect_fd: the write_fd of a successful call stays open.
redirect_fd_leaking(tab, target_fd, outcome) ==
    IF outcome = "PipeError" THEN [tab |-> tab, read_fd |-> NoFd]
    ELSE LET p == PipeOpen(tab, target_fd) IN
         IF outcome = "Dup2Error"
         THEN [tab |-> Close(Close(p.tab, p.read_fd), p.write_fd), read_fd |-> NoFd]
         ELSE [tab |-> Dup2(p.tab, p.write_fd, target_fd), read_fd |-> p.read_fd]

\* fn redirect_fd(target_fd) -> Option<c_int>: the descriptor table it leaves
\* and the read_fd it returns (NoFd for None).
\*   pipe fails:  return None
\*   dup2 fails:  close(read_fd); close(write_fd); return None
\*   otherwise:   close(write_fd); Some(read_fd)
redirect_fd(tab, target_fd, outcome) ==
    IF outcome = "PipeError" THEN [tab |-> tab, read_fd |-> NoFd]
    ELSE LET p == PipeOpen(tab, target_fd) IN
         IF outcome = "Dup2Error"
         THEN [tab |-> Close(Close(p.tab, p.read_fd), p.write_fd), read_fd |-> NoFd]
         ELSE [tab |-> Close(Dup2(p.tab, p.write_fd, target_fd), p.write_fd),
               read_fd |-> p.read_fd]

\* if let Some(read_fd) = redirect_fd(target_fd) {
\*     thread::spawn(move || { read_and_emit(read_fd, stream_name, handle); });
\* }
\* On Some the descriptor points to a new pipe and one thread reads it; on
\* None (redirect_fd closed what it had opened) nothing has changed.
redirect_and_spawn(target_fd, stream_name, outcome) ==
    /\ redirect' = [redirect EXCEPT ![target_fd] = outcome]
    /\ fdtab' = redirect_fd(fdtab, target_fd, outcome).tab
    /\ read_fds' = [read_fds EXCEPT ![target_fd] =
                        redirect_fd(fdtab, target_fd, outcome).read_fd]
    /\ IF outcome = "Ok"
       THEN /\ redirected' = [redirected EXCEPT ![target_fd] = @ + 1]
            /\ pipe' = [pipe EXCEPT ![target_fd] = <<>>]
            /\ cap_reader' = [cap_reader EXCEPT ![target_fd] =
                                  [pc |-> "lines", stream_name |-> stream_name]]
            /\ cap_threads' = [cap_threads EXCEPT ![target_fd] = @ + 1]
       ELSE UNCHANGED <<redirected, pipe, cap_reader, cap_threads>>

\* Variant of capture_stdout: a failing redirect_fd ends start_capture.
capture_stdout_fatal(t, outcome) ==
    /\ cap_pc[t] = "stdout"
    /\ redirect_and_spawn(STDOUT_FILENO, "stdout", outcome)
    /\ cap_pc' = [cap_pc EXCEPT ![t] = IF outcome = "Ok" THEN "stderr" ELSE "ret"]
    /\ UNCHANGED <<CAPTURE_ACTIVE, written, vivid>>
    /\ UNCHANGED ptyVars
    /\ UNCHANGED appVars

\* // Capture stdout
capture_stdout(t, outcome) ==
    /\ cap_pc[t] = "stdout"
    /\ redirect_and_spawn(STDOUT_FILENO, "stdout", outcome)
    /\ cap_pc' = [cap_pc EXCEPT ![t] = "stderr"]
    /\ UNCHANGED <<CAPTURE_ACTIVE, written, vivid>>
    /\ UNCHANGED ptyVars
    /\ UNCHANGED appVars

\* // Capture stderr, and the end of start_capture
capture_stderr(t, outcome) ==
    /\ cap_pc[t] = "stderr"
    /\ redirect_and_spawn(STDERR_FILENO, "stderr", outcome)
    /\ cap_pc' = [cap_pc EXCEPT ![t] = "ret"]
    /\ UNCHANGED <<CAPTURE_ACTIVE, written, vivid>>
    /\ UNCHANGED ptyVars
    /\ UNCHANGED appVars

\* Variant of capture_return: a call that leaves a stream uncaptured clears
\* the flag again.
capture_return_clearing(t) ==
    /\ cap_pc[t] = "ret"
    /\ cap_pc' = [cap_pc EXCEPT ![t] = "idle"]
    /\ CAPTURE_ACTIVE' = (\A fd \in Fds : redirected[fd] > 0)
    /\ UNCHANGED <<redirect, redirected, cap_reader, cap_threads, pipe, written, vivid>>
    /\ UNCHANGED <<fdtab, read_fds>>
    /\ UNCHANGED ptyVars
    /\ UNCHANGED appVars

\* start_capture has returned to its caller.
capture_return(t) ==
    /\ cap_pc[t] = "ret"
    /\ cap_pc' = [cap_pc EXCEPT ![t] = "idle"]
    /\ UNCHANGED <<CAPTURE_ACTIVE, redirect, redirected, cap_reader, cap_threads,
                   pipe, written, vivid>>
    /\ UNCHANGED <<fdtab, read_fds>>
    /\ UNCHANGED ptyVars
    /\ UNCHANGED appVars

\* The index of the first '\n' of s, or 0.
NewlineIndex(s) ==
    IF \E i \in 1..Len(s) : s[i] = 10
    THEN CHOOSE i \in 1..Len(s) : s[i] = 10 /\ \A j \in 1..(i - 1) : s[j] # 10
    ELSE 0

\* std::str::from_utf8(..).is_ok(), as read_line checks the bytes of a line.
RECURSIVE ValidFrom(_, _)
ValidFrom(s, i) ==
    IF i > Len(s) THEN TRUE
    ELSE LET r == Utf8Step(s, i) IN r.ok /\ ValidFrom(s, r.next)

\* Lines::next: the final "\n" is removed, then a final "\r".
StripLine(l) ==
    LET a == IF l # <<>> /\ l[Len(l)] = 10 THEN SubSeq(l, 1, Len(l) - 1) ELSE l
    IN IF a # <<>> /\ a[Len(a)] = 13 THEN SubSeq(a, 1, Len(a) - 1) ELSE a

\* struct OutputPayload { stream, text }
OutputPayload(stream_name, text) == [stream |-> stream_name, text |-> text]

\* One iteration of `for line in reader.lines()`.  The write end of the pipe
\* is the standard stream itself and is never closed, so the iterator waits
\* until a whole line is in the pipe.
\*   Ok(text): if !text.is_empty() { emit("vivid-output", payload) }
\*   Err(e) (the line is not UTF-8): log::error!(..); break;
\* Leaving the loop drops the File made by from_raw_fd(read_fd), which
\* closes the descriptor.
read_and_emit(read_fd) ==
    /\ cap_reader[read_fd].pc = "lines"
    /\ NewlineIndex(pipe[read_fd]) > 0
    /\ LET n == NewlineIndex(pipe[read_fd])
           line == SubSeq(pipe[read_fd], 1, n)
           text == StripLine(line)
       IN /\ pipe' = [pipe EXCEPT ![read_fd] = SubSeq(@, n + 1, Len(@))]
          /\ IF ~ValidFrom(line, 1)
             THEN /\ cap_reader' = [cap_reader EXCEPT ![read_fd].pc = "done"]
                  /\ fdtab' = Close(fdtab, read_fds[read_fd])
                  /\ read_fds' = [read_fds EXCEPT ![read_fd] = NoFd]
                  /\ UNCHANGED vivid
             ELSE /\ UNCHANGED <<fdtab, read_fds>>
                  /\ vivid' = IF text # <<>>
                              THEN Append(vivid,
                                          OutputPayload(cap_reader[read_fd].stream_name, text))
                              ELSE vivid
                  /\ UNCHANGED cap_reader
    /\ UNCHANGED <<CAPTURE_ACTIVE, cap_pc, redirect, redirected, cap_threads, written>>
    /\ UNCHANGED ptyVars
    /\ UNCHANGED appVars

\* Any code of the process writes one byte to a redirected standard stream.
process_write(fd, b) ==
    /\ redirected[fd] > 0
    /\ Len(written[STDOUT_FILENO]) + Len(written[STDERR_FILENO]) < MaxCapture
    /\ pipe' = [pipe EXCEPT ![fd] = Append(@, b)]
    /\ written' = [written EXCEPT ![fd] = Append(@, b)]
    /\ UNCHANGED <<CAPTURE_ACTIVE, cap_pc, redirect, redirected, cap_reader,
                   cap_threads, vivid>>
    /\ UNCHANGED <<fdtab, read_fds>>
    /\ UNCHANGED ptyVars
    /\ UNCHANGED appVars

(***************************************************************************)
(* main.rs: initialize_vivid and the MainEventsCleared branch of the event *)
(* loop.                                                                   *)
(***************************************************************************)
\* The `?` exits of initialize_vivid: get_window_handle gave None, the
\* manifest directory has no parent, inner_size failed, Context::with_window
\* failed, the vivid mutex is poisoned.
InitErrors == {"WindowHandle", "ParentDir", "InnerSize", "Context", "Poisoned"}

\* A call made by a caller other than the event loop carries no frame.
NoFrame == -1

\* One call of initialize_vivid as the history records it: the frame of the
\* event loop that made it, whether the body after the guard ran, the
\* Result, and whether a context was stored.
InitCall(frame, ran, res, created) ==
    [frame |-> frame, ran |-> ran, result |-> res, created |-> created]

\* Variant of initialize_vivid: the flag is set only by a successful attempt.
initialize_vivid_retrying(frame, outcome) ==
    IF init_attempted
    THEN /\ init_log' = Append(init_log, InitCall(frame, FALSE, "Ok", FALSE))
         /\ UNCHANGED <<init_attempted, vivid_ctx>>
    ELSE /\ init_attempted' = (outcome = "Ok")
         /\ vivid_ctx' = IF outcome = "Ok" THEN "Some" ELSE vivid_ctx
         /\ init_log' = Append(init_log, InitCall(frame, TRUE, outcome, outcome = "Ok"))

\* fn initialize_vivid(state, window) -> Result<(), String>
\*   if state.init_attempted.swap(true, Ordering::SeqCst) { return Ok(()); }
\*   .. every fallible step leaves with `?` ..
\*   *guard = Some(VividContext { ctx }); .. Ok(())
initialize_vivid(frame, outcome) ==
    IF init_attempted
    THEN /\ init_log' = Append(init_log, InitCall(frame, FALSE, "Ok", FALSE))
         /\ UNCHANGED <<init_attempted, vivid_ctx>>
    ELSE /\ init_attempted' = TRUE
         /\ vivid_ctx' = IF outcome = "Ok" THEN "Some" ELSE vivid_ctx
         /\ init_log' = Append(init_log, InitCall(frame, TRUE, outcome, outcome = "Ok"))

\* RunEvent::MainEventsCleared => {
\*     let frame = frame_counter.fetch_add(1, Ordering::SeqCst);
\*     if frame == 30 && !state.init_attempted.load(Ordering::SeqCst) {
\*         if let Some(window) = app_handle.get_webview_window("main") {
\*             if let Err(e) = initialize_vivid(&state, &window) { .. }
\*         }
\*     }
\*     .. render_frame, update_performance_stats ..
\* }
\* window: get_webview_window gave Some.  The rendering and the statistics
\* after the attempt touch none of the variables of the model.
MainEventsCleared(window, outcome) ==
    /\ timer_pc # "none"
    /\ frame_count < MaxFrames
    /\ frame_count' = frame_count + 1
    /\ IF frame_count = InitFrame /\ ~init_attempted /\ window
       THEN initialize_vivid(frame_count, outcome)
       ELSE UNCHANGED <<init_attempted, vivid_ctx, init_log>>
    /\ UNCHANGED <<render_running, timer_pc, ticks, exit_handled>>
    /\ UNCHANGED ptyVars
    /\ UNCHANGED captureVars

\* initialize_vivid called by any other caller of the function.
initialize_vivid_call(outcome) ==
    /\ timer_pc # "none"
    /\ Len(init_log) < MaxInitCalls
    /\ initialize_vivid(NoFrame, outcome)
    /\ UNCHANGED <<frame_count, render_running, timer_pc, ticks, exit_handled>>
    /\ UNCHANGED ptyVars
    /\ UNCHANGED captureVars

(***************************************************************************)
(* main.rs: the render timer thread and RunEvent::ExitRequested.           *)
(***************************************************************************)
\* setup: std::thread::spawn(move || { .. });  The thread exists and has not
\* yet run its first statement.
setup_spawn_timer ==
    /\ timer_pc = "none"
    /\ timer_pc' = "store"
    /\ UNCHANGED <<init_attempted, vivid_ctx, frame_count, init_log>>
    /\ UNCHANGED <<render_running, ticks, exit_handled>>
    /\ UNCHANGED ptyVars
    /\ UNCHANGED captureVars

\* timer_state.render_running.store(true, Ordering::SeqCst);
timer_store ==
    /\ timer_pc = "store"
    /\ render_running' = TRUE
    /\ timer_pc' = "load"
    /\ UNCHANGED <<init_attempted, vivid_ctx, frame_count, init_log>>
    /\ UNCHANGED <<ticks, exit_handled>>
    /\ UNCHANGED ptyVars
    /\ UNCHANGED captureVars

\* while timer_state.render_running.load(Ordering::SeqCst) { .. }
\* log::info!("Render timer thread stopped");
timer_load ==
    /\ timer_pc = "load"
    /\ timer_pc' = IF render_running THEN "emit" ELSE "stopped"
    /\ UNCHANGED <<init_attempted, vivid_ctx, frame_count, init_log>>
    /\ UNCHANGED <<render_running, ticks, exit_handled>>
    /\ UNCHANGED ptyVars
    /\ UNCHANGED captureVars

\* if let Some(window) = timer_handle.get_webview_window("main") {
\*     let _ = window.emit("render-tick", ());
\* }
\* std::thread::sleep(wake_interval);
timer_emit(window) ==
    /\ timer_pc = "emit"
    /\ ticks' = IF window THEN Min(ticks + 1, MaxTicks) ELSE ticks
    /\ timer_pc' = "load"
    /\ UNCHANGED <<init_attempted, vivid_ctx, frame_count, init_log>>
    /\ UNCHANGED <<render_running, exit_handled>>
    /\ UNCHANGED ptyVars
    /\ UNCHANGED captureVars

\* RunEvent::ExitRequested { .. } => {
\*     state.render_running.store(false, Ordering::SeqCst);
\* }
ExitRequested ==
    /\ timer_pc # "none"
    /\ ~exit_handled
    /\ render_running' = FALSE
    /\ exit_handled' = TRUE
    /\ UNCHANGED <<init_attempted, vivid_ctx, frame_count, init_log>>
    /\ UNCHANGED <<timer_pc, ticks>>
    /\ UNCHANGED ptyVars
    /\ UNCHANGED captureVars

(***************************************************************************)
(* Specifications.                                                         *)
(***************************************************************************)
\* Terminal geometries (rows, cols) the callers pass to spawn_shell and resize.
SpawnSizes == {<<24, 80>>}
ResizeSizes == {<<40, 120>>}

Spawn(t) ==
    \/ \E sz \in SpawnSizes, outcome \in {"Ok"} \cup PrologueErrors :
          spawn_shell_prologue(t, sz, outcome)
    \/ next_id_lock(t)
    \/ next_id_incr(t)
    \/ insert(t)
    \/ thread_spawn(t)

Caller(t) ==
    \/ Spawn(t)
    \/ \E id \in Ids, d \in Inputs : write_call(t, id, d)
    \/ write_lookup(t)
    \/ write_all(t)
    \/ flush(t)
    \/ \E id \in Ids, sz \in ResizeSizes : resize_call(t, id, sz)
    \/ resize_lookup(t)
    \/ os_resize(t)
    \/ \E id \in Ids : close_call(t, id)
    \/ close_remove(t)
    \/ Return(t)

Reader(s) ==
    \/ \E n \in 1..MaxStream : reader_output(s, n)
    \/ reader_eof(s)
    \/ reader_error(s)

\* The registry under concurrent callers; the children only exit.
Next ==
    \/ \E t \in Threads : Caller(t)
    \/ \E s \in Ids : reader_eof(s)
    \/ \E s \in Ids : child_exit(s, "eof")

Spec == Init /\ [][Next]_vars

\* The readers and their children; one caller spawns the sessions.
NextStream ==
    \/ Spawn(1)
    \/ Return(1)
    \/ \E s \in Ids : Reader(s)
    \/ \E s \in Ids, b \in StreamBytes : child_write(s, b, MaxStream)
    \/ \E s \in Ids, how \in {"eof", "err"} : child_exit(s, how)

SpecStream == Init /\ [][NextStream]_vars

\* Scheduling: a started reader thread keeps running, and so does a caller
\* inside spawn_shell once its fallible steps are done (no other thread
\* contends for the two mutexes here).
SpecStreamFair ==
    /\ SpecStream
    /\ \A s \in Ids : WF_vars(Reader(s))
    /\ WF_vars(next_id_lock(1) \/ next_id_incr(1) \/ insert(1) \/ thread_spawn(1))

\* A writer and an unrelated caller.  Thread 1 writes to session 1; thread 2
\* spawns the sessions and writes to, resizes and closes session 2.
NextBlocked ==
    \/ \E d \in Inputs : write_call(1, 1, d)
    \/ write_lookup(1)
    \/ write_all(1)
    \/ flush(1)
    \/ Return(1)
    \/ Spawn(2)
    \/ \E d \in Inputs : write_call(2, 2, d)
    \/ write_lookup(2)
    \/ write_all(2)
    \/ flush(2)
    \/ \E sz \in ResizeSizes : resize_call(2, 2, sz)
    \/ resize_lookup(2)
    \/ os_resize(2)
    \/ close_call(2, 2)
    \/ close_remove(2)
    \/ Return(2)

SpecBlocked == Init /\ [][NextBlocked]_vars

\* Scheduling: thread 2 keeps running and its OS calls return; a parking_lot
\* mutex is handed to a waiting thread once it is released, so a thread that
\* waits for a lock that is released again and again gets it (SF).  Nothing
\* is assumed of thread 1: its write_all and flush are OS calls on the PTY of
\* session 1 and return only when the OS lets them.
SpecBlockedFair ==
    /\ SpecBlocked
    /\ SF_vars(write_lookup(2))
    /\ SF_vars(resize_lookup(2))
    /\ SF_vars(close_remove(2))
    /\ SF_vars(insert(2))
    /\ WF_vars(next_id_lock(2) \/ next_id_incr(2) \/ thread_spawn(2))
    /\ WF_vars(write_all(2) \/ flush(2) \/ os_resize(2))

\* The life of a session: one caller spawns and closes, the readers run, the
\* children write one byte and exit when they choose to.
NextLife ==
    \/ Spawn(1)
    \/ \E id \in Ids : close_call(1, id)
    \/ close_remove(1)
    \/ Return(1)
    \/ \E s \in Ids : Reader(s)
    \/ \E s \in Ids : child_write(s, 65, MaxLifeStream)
    \/ \E s \in Ids, how \in {"eof", "err"} : child_exit(s, how)

SpecLife == Init /\ [][NextLife]_vars

\* Scheduling: a started reader thread keeps running and the caller finishes
\* the call it is in.  Nothing is assumed of the children: a shell exits
\* when it decides to.
SpecLifeFair ==
    /\ SpecLife
    /\ \A s \in Ids : WF_vars(Reader(s))
    /\ WF_vars(next_id_lock(1) \/ next_id_incr(1) \/ insert(1) \/ thread_spawn(1)
                 \/ close_remove(1))

\* The writer of session 1 may panic inside its OS calls, under the guard.
NextPanic ==
    \/ NextBlocked
    \/ panic_under_lock(1)

SpecPanic == Init /\ [][NextPanic]_vars

\* The event sink under registry traffic: thread 1 spawns the sessions and
\* writes to session 1, thread 2 resizes and closes session 1, the readers
\* run, the children write and exit.
NextSink ==
    \/ Spawn(1)
    \/ \E d \in Inputs : write_call(1, 1, d)
    \/ write_lookup(1)
    \/ write_all(1)
    \/ flush(1)
    \/ Return(1)
    \/ \E sz \in ResizeSizes : resize_call(2, 1, sz)
    \/ resize_lookup(2)
    \/ os_resize(2)
    \/ close_call(2, 1)
    \/ close_remove(2)
    \/ Return(2)
    \/ \E s \in Ids : Reader(s)
    \/ \E s \in Ids : child_write(s, 65, MaxLifeStream)
    \/ \E s \in Ids, how \in {"eof", "err"} : child_exit(s, how)

SpecSink == Init /\ [][NextSink]_vars

\* The registry alone: every operation from every caller thread.
NextRegistry == \E t \in Threads : Caller(t)

SpecRegistry == Init /\ [][NextRegistry]_vars

\* The end of the counter's range: the callers spawn and close.
NextWrap ==
    \/ \E t \in Threads : Spawn(t)
    \/ \E t \in Threads, id \in Ids : close_call(t, id)
    \/ \E t \in Threads : close_remove(t)
    \/ \E t \in Threads : Return(t)

SpecWrap == InitWrap /\ [][NextWrap]_vars

\* The capture of the standard streams: start_capture called from any thread,
\* the two read_and_emit threads and the writes of the process.
NextCapture ==
    \/ \E t \in Threads : start_capture_swap(t)
    \/ \E t \in Threads, outcome \in {"Ok"} \cup RedirectErrors :
          capture_stdout(t, outcome)
    \/ \E t \in Threads, outcome \in {"Ok"} \cup RedirectErrors :
          capture_stderr(t, outcome)
    \/ \E t \in Threads : capture_return(t)
    \/ \E fd \in Fds : read_and_emit(fd)
    \/ \E fd \in Fds, b \in CaptureBytes : process_write(fd, b)

SpecCapture == Init /\ [][NextCapture]_vars

\* The event loop of main.rs after setup, the render timer thread and the
\* exit request.
NextTimer ==
    \/ setup_spawn_timer
    \/ \E window \in BOOLEAN, outcome \in {"Ok"} \cup InitErrors :
          MainEventsCleared(window, outcome)
    \/ ExitRequested
    \/ timer_store
    \/ timer_load
    \/ \E window \in BOOLEAN : timer_emit(window)

SpecTimer == Init /\ [][NextTimer]_vars

\* The scheduler runs the timer thread as long as it has a step to take;
\* its sleep ends.  Nothing is assumed of the events the event loop gets.
SpecTimerFair ==
    /\ SpecTimer
    /\ WF_vars(timer_store)
    /\ WF_vars(timer_load)
    /\ WF_vars(\E window \in BOOLEAN : timer_emit(window))

\* The event loop of main.rs after setup, and initialize_vivid called by the
\* event loop or by any other caller.
NextInitialize ==
    \/ setup_spawn_timer
    \/ \E window \in BOOLEAN, outcome \in {"Ok"} \cup InitErrors :
          MainEventsCleared(window, outcome)
    \/ \E outcome \in {"Ok"} \cup InitErrors : initialize_vivid_call(outcome)

SpecInitialize == Init /\ [][NextInitialize]_vars

(***************************************************************************)
(* Vocabulary of the properties.                                           *)
(***************************************************************************)
RegistryOps == {"write", "resize", "close"}

LookupPcs == {"write_lookup", "resize_lookup", "close_remove"}

\* The positions of a call between its lookup and the end of its OS calls.
UnderGuardPcs == {"write_all", "flush", "os_resize"}

\* The errors of the OS calls of write and resize.
OsErrors == {"WriteError", "FlushError", "ResizeError"}

\* Thread t runs spawn_shell and has taken its identifier from the counter.
Holds(t) == op[t] = "spawn_shell" /\ session_id[t] # NoId

\* Thread t takes a step of its own.
Steps(t) == pc'[t] # pc[t]

IsExitOf(e, s) == e.name = "pty-exit" /\ e.sid = s

IsOutputOf(e, s) == e.name = "pty-output" /\ e.sid = s

ExitCount(s) == Cardinality({i \in 1..Len(events) : IsExitOf(events[i], s)})

\* The texts of the pty-output events of session s, in order of emission.
OutTexts(s) ==
    LET Mine(e) == IsOutputOf(e, s)
        outs == SelectSeq(events, Mine)
    IN [i \in 1..Len(outs) |-> outs[i].text]

\* The identifiers successful spawn_shell calls have returned, or are
\* returning.
Spawned ==
    returned \cup {session_id[t] : t \in {u \in Threads :
                       pc[u] = "ret" /\ op[u] = "spawn_shell" /\ result[u] = "Ok"}}

\* The events of session s, in order of emission.
EventsOf(es, s) == LET Mine(e) == e.sid = s IN SelectSeq(es, Mine)

\* The logical name start_capture gives to the stream of a descriptor.
StreamName(fd) == IF fd = STDOUT_FILENO THEN "stdout" ELSE "stderr"

\* The texts of the vivid-output events tagged with a stream name, in order
\* of emission.
VividTexts(name) ==
    LET Mine(e) == e.stream = name
        outs == SelectSeq(vivid, Mine)
    IN [i \in 1..Len(outs) |-> outs[i].text]

\* The newline-terminated lines of a byte sequence, without their newline.
RECURSIVE CompleteLines(_)
CompleteLines(s) ==
    LET n == NewlineIndex(s) IN
    IF n = 0 THEN <<>>
    ELSE <<SubSeq(s, 1, n - 1)>> \o CompleteLines(SubSeq(s, n + 1, Len(s)))

\* The descriptor numbers that refer to the read end, and to the write end,
\* of the pipe made for a standard stream.
ReadFdsOf(target_fd) == {d \in Descriptors : fdtab[d] = ReadEnd(target_fd)}
WriteFdsOf(target_fd) == {d \in Descriptors : fdtab[d] = WriteEnd(target_fd)}

\* Thread t takes a step inside start_capture.
CaptureSteps(t) == cap_pc'[t] # cap_pc[t]

(***************************************************************************)
(* C1. Concurrent spawn_shell calls never return the same identifier, and  *)
(* a call that takes its identifier after another call returned gets a     *)
(* strictly larger one: identifiers held by running calls are pairwise     *)
(* distinct and differ from every identifier already returned, and the     *)
(* value read from the counter exceeds every identifier returned so far.   *)
(***************************************************************************)
C1_UniqueIncreasingIds ==
    /\ [](\A t1, t2 \in Threads :
            (t1 # t2 /\ Holds(t1) /\ Holds(t2)) => session_id[t1] # session_id[t2])
    /\ [](\A t \in Threads : Holds(t) => session_id[t] \notin returned)
    /\ [][\A t \in Threads :
            (pc[t] = "id_lock" /\ pc'[t] = "id_incr")
                => current'[t] > SetMax(returned)]_vars

(***************************************************************************)
(* C2. Once close(id) has removed the entry, every write, resize and close *)
(* whose lookup runs afterwards returns the session-not-found error, and   *)
(* no spawn_shell takes that identifier from the counter again.            *)
(***************************************************************************)
C2_ClosedStaysClosed ==
    /\ [](closed \cap DOMAIN sessions = {})
    /\ [][\A t \in Threads :
            /\ (pc[t] \in LookupPcs /\ Steps(t) /\ session_id[t] \in closed)
                   => (pc'[t] = "ret" /\ result'[t] = "NotFound")
            /\ (pc[t] = "id_lock" /\ Steps(t)) => current'[t] \notin closed]_vars

(***************************************************************************)
(* C3. write, resize and close on an identifier that is not registered     *)
(* (never issued, or closed) return the session-not-found error, and no    *)
(* step of such a call changes the registry, the counter, the bytes        *)
(* written to any session, any window size, the readers or the events.     *)
(***************************************************************************)
C3_NotFoundNoEffect ==
    [][\A t \in Threads :
         /\ (pc[t] \in LookupPcs /\ Steps(t) /\ session_id[t] \notin DOMAIN sessions)
                => (pc'[t] = "ret" /\ result'[t] = "NotFound")
         /\ (Steps(t) /\ op'[t] \in RegistryOps
               /\ (pc'[t] \in LookupPcs \/ (pc'[t] = "ret" /\ result'[t] = "NotFound")))
                => /\ UNCHANGED <<sessions, next_id, idLock, sesLock, closed>>
                   /\ UNCHANGED <<ptyIn, winsize, ptyOut, stream>>
                   /\ UNCHANGED <<reader, events>>]_vars

\* A close of an already closed identifier failed while another session is
\* registered and an event has been emitted.
C3_Witness ==
    \E t \in Threads :
        /\ pc[t] = "ret" /\ op[t] = "close" /\ result[t] = "NotFound"
        /\ session_id[t] \in closed
        /\ DOMAIN sessions # {}
        /\ events # <<>>

(***************************************************************************)
(* C4. A spawn_shell call that fails at one of its fallible steps returns  *)
(* the error of that step, takes no identifier, inserts no entry and       *)
(* starts no reader thread.                                                *)
(***************************************************************************)
C4_FailedSpawnNoEffect ==
    /\ [](\A t \in Threads :
            (pc[t] = "ret" /\ op[t] = "spawn_shell" /\ result[t] # "Ok")
                => (result[t] \in PrologueErrors /\ session_id[t] = NoId))
    /\ [][\A t \in Threads :
            (Steps(t) /\ pc'[t] = "ret" /\ op'[t] = "spawn_shell" /\ result'[t] # "Ok")
                => /\ UNCHANGED <<sessions, next_id, idLock, sesLock>>
                   /\ UNCHANGED <<reader, events>>]_vars

\* A spawn failed at the last fallible step while the registry holds a session.
C4_Witness ==
    \E t \in Threads :
        /\ pc[t] = "ret" /\ op[t] = "spawn_shell" /\ result[t] = "ReaderError"
        /\ DOMAIN sessions # {}

(***************************************************************************)
(* C5 as stated. When the child of a session exits, exactly one pty-exit   *)
(* event of the session is emitted, whether the end of the stream reaches  *)
(* the reader as a zero-byte read or as a read error: a reader that has    *)
(* left its loop has emitted exactly one pty-exit event.                   *)
(***************************************************************************)
C5_ExitEventAfterAnyEnd ==
    \A s \in Ids : reader[s].pc = "done" => ExitCount(s) = 1

(***************************************************************************)
(* C5 amended. When the child of a session exits and the end of the stream *)
(* reaches the reader as a zero-byte read, exactly one pty-exit event of   *)
(* the session is eventually emitted (the reader being scheduled fairly);  *)
(* when it reaches the reader as a read error, the reader leaves its loop  *)
(* without a pty-exit event.                                               *)
(***************************************************************************)
C5_ExitEventAfterEof ==
    /\ \A s \in Ids : stream[s] = "eof" ~> ExitCount(s) = 1
    /\ [](\A s \in Ids : ExitCount(s) <= 1)
    /\ [](\A s \in Ids :
            reader[s].pc = "done"
                => ExitCount(s) = (IF stream[s] = "eof" THEN 1 ELSE 0))

\* One session ended with a zero-byte read and has its exit event, another
\* ended with a read error and has none.
C5_Witness ==
    \E s1, s2 \in Ids :
        /\ reader[s1].pc = "done" /\ stream[s1] = "eof" /\ ExitCount(s1) = 1
        /\ reader[s2].pc = "done" /\ stream[s2] = "err" /\ ExitCount(s2) = 0

(***************************************************************************)
(* C6. For every session at most one pty-exit event is emitted, and no     *)
(* event of the session follows its pty-exit event.                        *)
(***************************************************************************)
C6_ExitIsLast ==
    \A s \in Ids :
        \A i, j \in 1..Len(events) :
            (i < j /\ IsExitOf(events[i], s)) => events[j].sid # s

\* A session emitted output and then its exit event, and a later event of
\* another session follows.
C6_Witness ==
    \E i, j, k \in 1..Len(events) :
        /\ i < j /\ j < k
        /\ events[i].name = "pty-output"
        /\ IsExitOf(events[j], events[i].sid)
        /\ events[k].sid # events[i].sid

(***************************************************************************)
(* C7. The pty-output events of a session are, in order, the lossy         *)
(* decodings of the chunks its reads returned: one event per read, none    *)
(* reordered, merged or dropped, each tagged with the session's id.        *)
(***************************************************************************)
C7_OneEventPerRead ==
    \A s \in Ids :
        OutTexts(s) = [i \in 1..Len(reads[s]) |-> from_utf8_lossy(reads[s][i])]

\* A session with two reads, interleaved with a read of another session.
C7_Witness ==
    \E s1, s2 \in Ids :
        /\ s1 # s2
        /\ Len(reads[s1]) >= 2
        /\ Len(reads[s2]) >= 1
        /\ \E i, j, k \in 1..Len(events) :
              /\ i < j /\ j < k
              /\ IsOutputOf(events[i], s1)
              /\ IsOutputOf(events[j], s2)
              /\ IsOutputOf(events[k], s1)

(***************************************************************************)
(* C8. Once the reader of a session has read the whole stream of its child *)
(* the concatenated texts of the session's pty-output events are the lossy *)
(* UTF-8 decoding of the whole stream, however the stream was split into   *)
(* reads.                                                                  *)
(***************************************************************************)
C8_ConcatIsLossyDecoding ==
    \A s \in Ids :
        (reader[s].pc = "done" /\ ptyOut[s] = <<>>)
            => Flatten(OutTexts(s)) = from_utf8_lossy(produced[s])

(***************************************************************************)
(* C9. A write holds the registry lock from its lookup to the end of its   *)
(* flush: while it writes or flushes, its session is registered, and bytes *)
(* reach only the PTY of a session that is registered before and after the *)
(* write.                                                                  *)
(***************************************************************************)
C9_WriteSerializedWithClose ==
    /\ [](\A t \in Threads :
            pc[t] \in {"write_all", "flush"}
                => /\ sesLock = t
                   /\ session_id[t] \in DOMAIN sessions
                   /\ sessions[session_id[t]] = session[t])
    /\ [][\A s \in Ids :
            ptyIn'[s] # ptyIn[s]
                => (s \in DOMAIN sessions /\ s \in DOMAIN sessions')]_vars

\* A close of the session waits for the lock while a write is about to flush.
C9_Witness ==
    \E t, u \in Threads :
        /\ pc[t] = "flush"
        /\ pc[u] = "close_remove"
        /\ session_id[u] = session_id[t]

(***************************************************************************)
(* C10. The OS resize runs under the registry lock on a registered         *)
(* session: no removal of that session overlaps it, and a resize whose     *)
(* lookup runs after the session was closed returns session-not-found and  *)
(* changes no window size.                                                 *)
(***************************************************************************)
C10_ResizeSerializedWithClose ==
    /\ [](\A t \in Threads :
            pc[t] = "os_resize"
                => /\ sesLock = t
                   /\ session_id[t] \in DOMAIN sessions
                   /\ sessions[session_id[t]] = session[t])
    /\ [][\A t \in Threads :
            (pc[t] = "resize_lookup" /\ Steps(t) /\ session_id[t] \in closed)
                => (pc'[t] = "ret" /\ result'[t] = "NotFound" /\ UNCHANGED winsize)]_vars
    /\ [][\A s \in Ids : winsize'[s] # winsize[s] => s \in DOMAIN sessions']_vars

\* A close of the session waits for the lock while a resize is in its OS call.
C10_Witness ==
    \E t, u \in Threads :
        /\ pc[t] = "os_resize"
        /\ pc[u] = "close_remove"
        /\ session_id[u] = session_id[t]

(***************************************************************************)
(* C11. While a write on session 1 is inside its OS write or flush call    *)
(* and does not return, a write, resize or close on session 2 that has     *)
(* reached its lookup, and a spawn_shell that has reached its insert,      *)
(* still return.                                                           *)
(***************************************************************************)
C11_BlockedWriteStallsNoOne ==
    (pc[2] \in LookupPcs \cup {"insert"}) ~> (pc[2] = "ret")

(***************************************************************************)
(* C12. After close(id) has removed the entry of a session, the reader     *)
(* thread of the session eventually leaves its loop, with no further call. *)
(***************************************************************************)
C12_ReaderEndsAfterClose ==
    \A s \in Ids : (s \in closed) ~> (reader[s].pc = "done")

(***************************************************************************)
(* C13. However many start_capture calls run, one after another or at the  *)
(* same time, each standard stream is redirected at most once and gets at  *)
(* most one reader thread, at most one call is past the flag, the flag     *)
(* stays set, and a call that finds the flag set returns without           *)
(* redirecting, spawning or emitting anything.                             *)
(***************************************************************************)
C13_CaptureAtMostOnce ==
    /\ [](\A fd \in Fds : redirected[fd] <= 1 /\ cap_threads[fd] <= 1)
    /\ [](Cardinality({t \in Threads : cap_pc[t] \in {"stdout", "stderr"}}) <= 1)
    /\ [][CAPTURE_ACTIVE => CAPTURE_ACTIVE']_vars
    /\ [][\A t \in Threads :
            (cap_pc[t] = "idle" /\ CaptureSteps(t) /\ CAPTURE_ACTIVE)
                => /\ cap_pc'[t] = "ret"
                   /\ UNCHANGED <<redirect, redirected, cap_reader, cap_threads>>
                   /\ UNCHANGED <<pipe, vivid>>]_vars

\* A second call has returned at once while the first is still between the
\* two redirections, stdout is captured and a line of it has been emitted.
C13_Witness ==
    \E t, u \in Threads :
        /\ cap_pc[t] = "stderr"
        /\ cap_pc[u] = "ret"
        /\ redirected[STDOUT_FILENO] = 1
        /\ vivid # <<>>

(***************************************************************************)
(* C14. Once the reader of a captured stream has taken every complete line *)
(* written to the stream, the vivid-output events tagged with the stream's *)
(* name are, in order, exactly the newline-terminated lines written to it, *)
(* one event per line, empty lines included.                               *)
(***************************************************************************)
C14_OneEventPerLine ==
    \A fd \in Fds :
        (cap_reader[fd].pc = "lines" /\ NewlineIndex(pipe[fd]) = 0)
            => VividTexts(StreamName(fd)) = CompleteLines(written[fd])

(***************************************************************************)
(* C15. The reader thread of a redirected stream never leaves its loop,    *)
(* whatever bytes are written to the stream.                               *)
(***************************************************************************)
C15_ReaderKeepsRunning ==
    \A fd \in Fds : redirected[fd] > 0 => cap_reader[fd].pc = "lines"

(***************************************************************************)
(* C16. A failing pipe or dup2 for one standard stream starts no reader    *)
(* thread for it and changes nothing of either stream; start_capture goes  *)
(* on to the other stream after stdout, whatever the outcome, and returns  *)
(* after stderr, whatever the outcome.                                     *)
(***************************************************************************)
C16_FailedRedirectIsLocal ==
    /\ [](\A fd \in Fds : cap_threads[fd] = redirected[fd])
    /\ [](\A fd \in Fds :
            redirect[fd] \in RedirectErrors
                => cap_reader[fd].pc = "none" /\ cap_threads[fd] = 0)
    /\ [][\A fd \in Fds :
            (redirect'[fd] # redirect[fd] /\ redirect'[fd] \in RedirectErrors)
                => /\ UNCHANGED <<redirected, cap_reader, cap_threads>>
                   /\ UNCHANGED <<pipe, vivid>>]_vars
    /\ [][\A t \in Threads :
            /\ (cap_pc[t] = "stdout" /\ CaptureSteps(t)) => cap_pc'[t] = "stderr"
            /\ (cap_pc[t] = "stderr" /\ CaptureSteps(t)) => cap_pc'[t] = "ret"]_vars

\* The redirection of stdout failed at dup2, start_capture has returned, and
\* a line written to stderr has been emitted.
C16_Witness ==
    \E t \in Threads :
        /\ cap_pc[t] = "ret"
        /\ redirect[STDOUT_FILENO] = "Dup2Error"
        /\ redirect[STDERR_FILENO] = "Ok"
        /\ \E i \in 1..Len(vivid) : vivid[i].stream = "stderr"

(***************************************************************************)
(* C17. Exactly one reader thread has been started for every identifier    *)
(* that a successful spawn_shell returns, it is bound to that identifier,  *)
(* and none has been started for any other identifier.                     *)
(***************************************************************************)
C17_OneReaderPerSession ==
    \A s \in Ids :
        /\ started[s] = (IF s \in Spawned THEN 1 ELSE 0)
        /\ (reader[s].pc # "none") = (s \in Spawned)
        /\ s \in Spawned => reader[s].sid = s

C19_OnlyCloseRemoves ==
    /\ [][\A s \in Ids :
            (s \in DOMAIN sessions /\ s \notin DOMAIN sessions')
                => \E t \in Threads :
                      /\ pc[t] = "close_remove" /\ session_id[t] = s
                      /\ pc'[t] = "ret" /\ result'[t] = "Ok"]_vars
    /\ [][reader' # reader => sessions' = sessions]_vars
    /\ [](\A s \in Ids :
            (reader[s].pc = "done" /\ s \notin closed) => s \in DOMAIN sessions)

\* One reader ended with pty-exit, another on a read error, and both
\* sessions are still registered.
C19_Witness ==
    \E s1, s2 \in Ids :
        /\ reader[s1].pc = "done" /\ stream[s1] = "eof" /\ ExitCount(s1) = 1
        /\ reader[s2].pc = "done" /\ stream[s2] = "err"
        /\ {s1, s2} \subseteq DOMAIN sessions

(***************************************************************************)
(* C20. The step in which a reader observes a read error emits nothing,    *)
(* and from then on the reader stays ended and no event of its session is  *)
(* emitted.                                                                *)
(***************************************************************************)
C20_NoEventAfterReadError ==
    /\ [][\A s \in Ids :
            (reader[s].pc = "read" /\ reader'[s].pc = "done" /\ stream[s] = "err")
                => events' = events]_vars
    /\ [][\A s \in Ids :
            (reader[s].pc = "done" /\ stream[s] = "err")
                => /\ reader'[s].pc = "done"
                   /\ EventsOf(events', s) = EventsOf(events, s)]_vars

\* A reader emitted output and then ended on a read error; the last event
\* is one of another session.
C20_Witness ==
    \E s \in Ids :
        /\ reader[s].pc = "done" /\ stream[s] = "err"
        /\ OutTexts(s) # <<>>
        /\ events # <<>>
        /\ events[Len(events)].sid # s

(***************************************************************************)
(* C21. The insertion done by spawn_shell never overwrites an entry: when  *)
(* the insert runs, the new identifier is not a key of the map.            *)
(***************************************************************************)
C21_InsertNeverOverwrites ==
    [][\A t \in Threads :
         (pc[t] = "insert" /\ Steps(t)) => session_id[t] \notin DOMAIN sessions]_vars

(***************************************************************************)
(* C23. The counter only grows, also at the end of its range, and no       *)
(* spawn_shell takes an identifier that is registered or that a completed  *)
(* call has returned.                                                      *)
(***************************************************************************)
C23_NoWrapAround ==
    [][/\ next_id' >= next_id
       /\ \A t \in Threads :
            (pc[t] = "id_lock" /\ Steps(t))
                => current'[t] \notin (returned \cup DOMAIN sessions)]_vars

(***************************************************************************)
(* C27. Consequences of the counter counting the successful spawns: every  *)
(* key of the registry and every identifier a running spawn_shell holds    *)
(* lies in 1..counter-1.                                                   *)
(***************************************************************************)
C27_CounterAboveEveryIdentifier ==
    /\ \A k \in DOMAIN sessions : 1 <= k /\ k < next_id
    /\ \A t \in Threads : Holds(t) => (1 <= session_id[t] /\ session_id[t] < next_id)

(***************************************************************************)
(* C22. A call returns the write error only from its OS write (the flush   *)
(* is not attempted), the flush error only from its flush and the resize   *)
(* error only from its OS resize; the failing step ends the call (no       *)
(* retry) and changes neither the registry, where the session stays, nor   *)
(* the counter, nor the bytes written to any session, nor any window size, *)
(* reader or event.                                                        *)
(***************************************************************************)
C22_OsFailureIsLocal ==
    [][\A t \in Threads :
         (Steps(t) /\ pc'[t] = "ret" /\ result'[t] \in OsErrors)
            => /\ result'[t] = "WriteError" => pc[t] = "write_all"
               /\ result'[t] = "FlushError" => pc[t] = "flush"
               /\ result'[t] = "ResizeError" => pc[t] = "os_resize"
               /\ session_id[t] \in DOMAIN sessions
               /\ UNCHANGED <<sessions, next_id, ptyIn, winsize>>
               /\ UNCHANGED <<reader, events>>]_vars

\* A write failed in its OS write and a resize in its OS call; both sessions
\* are registered.
C22_Witness ==
    \E t, u \in Threads :
        /\ pc[t] = "ret" /\ result[t] = "WriteError"
        /\ pc[u] = "ret" /\ result[u] = "ResizeError"
        /\ session_id[t] # session_id[u]
        /\ {session_id[t], session_id[u]} \subseteq DOMAIN sessions

(***************************************************************************)
(* C24. After a thread has panicked while it held the registry lock, a     *)
(* write, resize or close of another caller that reaches its lookup ends   *)
(* there with a failure and leaves the session map as it is.               *)
(***************************************************************************)
C24_PanicFailsLaterCalls ==
    [][\A t \in Threads :
         ((\E u \in Threads : pc[u] = "panicked") /\ pc[t] \in LookupPcs /\ Steps(t))
            => /\ pc'[t] = "ret" /\ result'[t] # "Ok"
               /\ sessions' = sessions]_vars

(***************************************************************************)
(* C25. No step of a reader thread, and no emission of an event, changes   *)
(* or needs the registry lock or the counter lock: whenever the read of a  *)
(* running reader can return bytes or the end of the stream, the reader's  *)
(* step is enabled, whichever thread holds or waits for a lock.            *)
(***************************************************************************)
C25_ReaderTakesNoLock ==
    /\ [][(events' # events
              \/ \E s \in Ids : reader[s].pc = "read" /\ reader'[s] # reader[s])
            => UNCHANGED <<idLock, sesLock, sessions, next_id>>]_vars
    /\ [](\A s \in Ids :
            reader[s].pc = "read"
                => /\ ptyOut[s] # <<>> => ENABLED reader_output(s, 1)
                   /\ (ptyOut[s] = <<>> /\ stream[s] = "eof") => ENABLED reader_eof(s)
                   /\ (ptyOut[s] = <<>> /\ stream[s] = "err") => ENABLED reader_error(s))

\* A write holds the registry lock, the other caller waits for it, and the
\* reader of a session has bytes to emit.
C25_Witness ==
    /\ sesLock = 1
    /\ pc[2] \in LookupPcs
    /\ \E s \in Ids : reader[s].pc = "read" /\ ptyOut[s] # <<>>

(***************************************************************************)
(* C29. Every event in the sink carries an identifier whose entry had been *)
(* inserted into the registry when the event was emitted (so an identifier *)
(* that was issued), events are only appended, and no step of a write,     *)
(* resize or close call emits an event.                                    *)
(***************************************************************************)
C29_EventsOnlyForInserted ==
    /\ [](\A i \in 1..Len(events) : PtyExists(events[i].sid))
    /\ [][events' # events
            => /\ Len(events') = Len(events) + 1
               /\ SubSeq(events', 1, Len(events)) = events
               /\ PtyExists(events'[Len(events')].sid)]_vars
    /\ [][\A t \in Threads :
            (Steps(t) /\ (op[t] \in RegistryOps \/ op'[t] \in RegistryOps))
                => events' = events]_vars

\* Session 1 was written to, emitted output and its exit, and was closed.
C29_Witness ==
    /\ 1 \in closed
    /\ ptyIn[1] # <<>>
    /\ \E i, j \in 1..Len(events) :
          /\ i < j
          /\ IsOutputOf(events[i], 1)
          /\ IsExitOf(events[j], 1)

(***************************************************************************)
(* C26. The session map is read and changed only by a step that takes the  *)
(* free registry lock, and a session reference is used only while the lock *)
(* is held; the counter lock is held only across the increment, the        *)
(* registry lock only across the OS calls of write and resize, never both  *)
(* by one thread, and a thread that holds a lock can always take its next  *)
(* step, so the lock is released and no interleaving deadlocks.            *)
(***************************************************************************)
C26_LockDiscipline ==
    /\ [][sessions' # sessions => (sesLock = NoThread /\ sesLock' = NoThread)]_vars
    /\ [][\A t \in Threads :
            (pc[t] \in LookupPcs \cup {"insert"} /\ Steps(t)) => sesLock = NoThread]_vars
    /\ [](\A t \in Threads : pc[t] \in UnderGuardPcs <=> sesLock = t)
    /\ [](\A t \in Threads : pc[t] = "id_incr" <=> idLock = t)
    /\ [](\A t \in Threads : ~(idLock = t /\ sesLock = t))
    /\ [](\A t \in Threads :
            /\ idLock = t => ENABLED next_id_incr(t)
            /\ sesLock = t => ENABLED (write_all(t) \/ flush(t) \/ os_resize(t)))

\* One thread holds the counter lock and the other the registry lock.
C26_Witness ==
    \E t, u \in Threads :
        /\ idLock = t
        /\ sesLock = u
        /\ pc[u] = "flush"

(***************************************************************************)
(* C28. An identifier that spawn_shell has returned and that no close has  *)
(* removed is registered, so the lookup of a write or a resize on it never *)
(* answers session-not-found; the entry is stored before the reader is     *)
(* started and before spawn_shell returns.                                 *)
(***************************************************************************)
C28_ReturnedIsRegistered ==
    /\ [](\A s \in returned \ closed : s \in DOMAIN sessions)
    /\ [][\A t \in Threads :
            (/\ pc[t] \in {"write_lookup", "resize_lookup"}
             /\ Steps(t)
             /\ session_id[t] \in returned \ closed) => result'[t] # "NotFound"]_vars
    /\ [](\A s \in DOMAIN started :
            started[s] > 0 => s \in DOMAIN sessions \cup closed)
    /\ [](\A t \in Threads :
            (op[t] = "spawn_shell" /\ pc[t] \in {"thread_spawn", "ret"}
                                   /\ result[t] \in {"none", "Ok"})
                => session_id[t] \in DOMAIN sessions \cup closed)

\* A write has found the session that an earlier spawn_shell returned.
C28_Witness ==
    \E t \in Threads :
        /\ op[t] = "write"
        /\ pc[t] = "write_all"
        /\ session_id[t] \in returned \ closed

(***************************************************************************)
(* C30. The step of a close that answers Ok removes the entry of its       *)
(* identifier and no other, and leaves the counter alone; no step of a     *)
(* write or a resize changes the registered identifiers or the counter.    *)
(***************************************************************************)
C30_CloseRemovesOnlyItsEntry ==
    /\ [][\A t \in Threads :
            (pc[t] = "close_remove" /\ Steps(t) /\ result'[t] = "Ok") =>
                /\ session_id[t] \in DOMAIN sessions
                /\ DOMAIN sessions' = DOMAIN sessions \ {session_id[t]}
                /\ \A k \in DOMAIN sessions' : sessions'[k] = sessions[k]
                /\ next_id' = next_id]_vars
    /\ [][\A t \in Threads :
            (Steps(t) /\ (op[t] \in {"write", "resize"} \/ op'[t] \in {"write", "resize"})) =>
                /\ sessions' = sessions
                /\ next_id' = next_id]_vars
    /\ [][\A t \in Threads :
            (Steps(t) /\ op'[t] = "close" /\ pc[t] # "close_remove") =>
                /\ sessions' = sessions
                /\ next_id' = next_id]_vars

\* A close has answered Ok while another session stays registered.
C30_Witness ==
    \E t \in Threads :
        /\ op[t] = "close"
        /\ pc[t] = "ret"
        /\ result[t] = "Ok"
        /\ session_id[t] \notin DOMAIN sessions
        /\ DOMAIN sessions # {}

(***************************************************************************)
(* C31. The capture flag is set before start_capture tries a redirection   *)
(* and is never cleared; a stream whose redirection failed is not tried    *)
(* again by any later call: its outcome stays, it is never redirected and  *)
(* never gets a reader thread.                                             *)
(***************************************************************************)
C31_FailedRedirectNeverRetried ==
    /\ [](\A t \in Threads : cap_pc[t] \in {"stdout", "stderr"} => CAPTURE_ACTIVE)
    /\ [](\A fd \in Fds : redirect[fd] # "none" => CAPTURE_ACTIVE)
    /\ [][CAPTURE_ACTIVE' \/ ~CAPTURE_ACTIVE]_vars
    /\ [][\A fd \in Fds :
            redirect[fd] \in RedirectErrors
                => /\ redirect'[fd] = redirect[fd]
                   /\ redirected'[fd] = 0
                   /\ cap_reader'[fd] = NoCapture
                   /\ cap_threads'[fd] = 0]_vars

\* The first call failed to redirect stdout and has returned; a later call
\* has found the flag set and returned, and stdout is still uncaptured.
C31_Witness ==
    \E t, u \in Threads :
        /\ t # u
        /\ cap_pc[t] = "idle"
        /\ cap_pc[u] = "ret"
        /\ redirect[STDOUT_FILENO] \in RedirectErrors
        /\ redirect[STDERR_FILENO] # "none"
        /\ redirected[STDOUT_FILENO] = 0

(***************************************************************************)
(* C32. Once RunEvent::ExitRequested has been handled, the render timer    *)
(* thread eventually leaves its loop, and from then on emits no            *)
(* render-tick, however its start-up is interleaved with the handler.      *)
(***************************************************************************)
C32_TimerStopsAfterExit == exit_handled ~> timer_pc = "stopped"

(***************************************************************************)
(* C33. The body of initialize_vivid runs at most once: every call after   *)
(* the first returns Ok without running the body or storing a context,     *)
(* also when the first attempt failed; a context exists only if the first  *)
(* call stored it; and the event loop calls initialize_vivid only on frame *)
(* 30 and only as the first call.                                          *)
(***************************************************************************)
C33_InitializedAtMostOnce ==
    /\ Cardinality({i \in 1..Len(init_log) : init_log[i].ran}) <= 1
    /\ \A i \in 2..Len(init_log) :
          /\ ~init_log[i].ran
          /\ init_log[i].result = "Ok"
          /\ ~init_log[i].created
    /\ Cardinality({i \in 1..Len(init_log) : init_log[i].created}) <= 1
    /\ vivid_ctx = "Some" <=> (init_log # <<>> /\ init_log[1].created)
    /\ init_attempted <=> init_log # <<>>
    /\ \A i \in 1..Len(init_log) :
          init_log[i].frame # NoFrame => (init_log[i].frame = InitFrame /\ i = 1)

\* The event loop made the first attempt on frame 30, the attempt failed,
\* and a later call has returned Ok; no context exists.
C33_Witness ==
    /\ Len(init_log) >= 2
    /\ init_log[1].frame = InitFrame
    /\ init_log[1].result \in InitErrors
    /\ init_log[2].result = "Ok"
    /\ vivid_ctx = "None"

(***************************************************************************)
(* C34. redirect_fd leaves no stray pipe descriptor.  After a failing pipe *)
(* or dup2 no descriptor refers to either end of a pipe for the stream,    *)
(* the stream's own descriptor is what it was and no read end is returned. *)
(* After a success the write end is referred to by the redirected standard *)
(* descriptor and by no other, and the read end by the one descriptor the  *)
(* one reader thread of the stream owns, until that thread ends and closes *)
(* it.                                                                     *)
(***************************************************************************)
C34_NoStrayPipeDescriptor ==
    /\ [](\A fd \in Fds :
            redirect[fd] \in RedirectErrors \cup {"none"}
                => /\ ReadFdsOf(fd) = {}
                   /\ WriteFdsOf(fd) = {}
                   /\ fdtab[fd] = Inherited
                   /\ read_fds[fd] = NoFd)
    /\ [](\A fd \in Fds :
            redirect[fd] = "Ok"
                => /\ WriteFdsOf(fd) = {fd}
                   /\ cap_threads[fd] = 1
                   /\ IF cap_reader[fd].pc = "lines"
                      THEN ReadFdsOf(fd) = {read_fds[fd]}
                      ELSE ReadFdsOf(fd) = {} /\ read_fds[fd] = NoFd)
    /\ [](\A fd, other \in Fds : read_fds[fd] # NoFd /\ fd # other
                                    => read_fds[fd] # read_fds[other])
    /\ [][\A fd \in Fds :
            (redirect'[fd] # redirect[fd] /\ redirect'[fd] \in RedirectErrors)
                => fdtab' = fdtab]_vars

\* The redirection of stdout failed at dup2 and left the table as it was;
\* the one of stderr succeeded: descriptor 2 is the only write end of its
\* pipe and the reader owns the only read end.
C34_Witness ==
    /\ redirect[STDOUT_FILENO] = "Dup2Error"
    /\ redirect[STDERR_FILENO] = "Ok"
    /\ WriteFdsOf(STDERR_FILENO) = {STDERR_FILENO}
    /\ ReadFdsOf(STDERR_FILENO) = {read_fds[STDERR_FILENO]}
    /\ Cardinality({d \in Descriptors : fdtab[d] # Free}) = 4

====
